---- MODULE Spec2Model ----
(***************************************************************************)
(* State-machine model of Shurik12/test_server:                            *)
(*   - RequestHandler (src/src/server/RequestHandler.{h,cpp}): the JSON    *)
(*     "process" transform and its shared tallies, one step per atomic     *)
(*     access, called from several threads (specification SpecRH);         *)
(*   - MultiplexingServer (src/src/server/MultiplexingServer.{h,cpp}):     *)
(*     the epoll event loop, ClientConnection, ConnectionPool and          *)
(*     ThreadPool (specification Spec).                                    *)
(***************************************************************************)
EXTENDS Integers, Sequences, FiniteSets, TLC

(***************************************************************************)
(* Part 1.  RequestHandler                                                 *)
(***************************************************************************)

\* Range of the C++ type int (UserData::id, UserData::number).
IntMax == 2147483647
IntMin == (-IntMax) - 1

\* ---- bounds of the RequestHandler model --------------------------------
\* Number of threads calling processRequest concurrently.
NThreads == 2
\* Total number of processRequest calls in one behaviour.
MaxCalls == 3

RHThreads == 1..NThreads

\* ---- JSON documents, abstracted to what parseJson looks at -------------
\* A member value: its JSON type, and its value when an integer or string.
\*   t = "int"     a number that fits the C++ int (rapidjson IsInt)
\*   t = "int64"   an integral number outside the int range (IsInt false)
\*   t = "double"  a number with fraction or exponent
\*   t = "string"  a string
\*   t = "bool"    true / false / null / array / object
\*   t = "missing" the member is absent
JInt(n)   == [t |-> "int", n |-> n, s |-> ""]
JStr(s)   == [t |-> "string", n |-> 0, s |-> s]
JOther(t) == [t |-> t, n |-> 0, s |-> ""]
JMissing  == JOther("missing")

\* A request body: "empty" (zero bytes), "malformed" (rapidjson reports a
\* parse error), "nonobject" (parses, root is not an object) or "object".
JObject(id, name, phone, number) ==
    [kind |-> "object", id |-> id, name |-> name, phone |-> phone, number |-> number]
JNonDoc(kind) ==
    [kind |-> kind, id |-> JMissing, name |-> JMissing, phone |-> JMissing,
     number |-> JMissing]

\* Inputs of the model: the integers and ids used in bodies.
Numbers == {-2, 1, IntMax}
Ids == {0, 1}

\* Bodies the specification calls valid: id >= 0, non-empty name and phone,
\* integer number.
ValidBodies ==
    { JObject(JInt(i), JStr("a"), JStr("p"), JInt(k)) : i \in Ids, k \in Numbers }

\* Bodies the specification calls invalid: empty input, unparseable JSON,
\* non-object root, a missing or wrong-typed member, empty name or phone,
\* negative id.
InvalidBodies ==
    { JNonDoc("empty"), JNonDoc("malformed"), JNonDoc("nonobject") }
    \cup { JObject(x, JStr("a"), JStr("p"), JInt(1)) :
             x \in {JMissing, JStr("7"), JOther("double"), JOther("int64"), JInt(-1)} }
    \cup { JObject(JInt(0), x, JStr("p"), JInt(1)) :
             x \in {JMissing, JInt(5), JStr("")} }
    \cup { JObject(JInt(0), JStr("a"), x, JInt(1)) :
             x \in {JMissing, JOther("bool"), JStr("")} }
    \cup { JObject(JInt(0), JStr("a"), JStr("p"), x) :
             x \in {JMissing, JStr("1"), JOther("double"), JOther("int64")} }

Bodies == ValidBodies \cup InvalidBodies

\* ---- UserData and the pure helpers of RequestHandler --------------------
UserData(id, name, phone, number) ==
    [id |-> id, name |-> name, phone |-> phone, number |-> number]

NoData == UserData(0, "", "", 0)

\* rapidjson: HasMember(m) && doc[m].IsInt()
IsIntMember(v) == v.t = "int"
\* rapidjson: HasMember(m) && doc[m].IsString()
IsStringMember(v) == v.t = "string"

\* RequestHandler::parseJson: the exception message, or "" and the data.
ParseJson(json_input) ==
    IF json_input.kind = "empty"
      THEN [err |-> "Empty JSON input", data |-> NoData]
    ELSE IF json_input.kind = "malformed"
      THEN [err |-> "Invalid JSON format", data |-> NoData]
    ELSE IF json_input.kind # "object"
      THEN [err |-> "Expected JSON object", data |-> NoData]
    ELSE IF ~IsIntMember(json_input.id)
      THEN [err |-> "Missing or invalid 'id' field", data |-> NoData]
    ELSE IF ~IsStringMember(json_input.name)
      THEN [err |-> "Missing or invalid 'name' field", data |-> NoData]
    ELSE IF ~IsStringMember(json_input.phone)
      THEN [err |-> "Missing or invalid 'phone' field", data |-> NoData]
    ELSE IF ~IsIntMember(json_input.number)
      THEN [err |-> "Missing or invalid 'number' field", data |-> NoData]
    ELSE [err |-> "",
          data |-> UserData(json_input.id.n, json_input.name.s,
                            json_input.phone.s, json_input.number.n)]

\* RequestHandler::validateUserData
validateUserDataNoIdCheck(data) ==
    IF data.name = "" THEN FALSE
    ELSE IF data.phone = "" THEN FALSE
    ELSE TRUE

validateUserData(data) ==
    IF data.name = "" THEN FALSE
    ELSE IF data.phone = "" THEN FALSE
    ELSE IF data.id < 0 THEN FALSE
    ELSE TRUE

\* RequestHandler::increase: ++number on a C++ int.  At INT_MAX the signed
\* increment overflows; the two's-complement build wraps to INT_MIN.
increase(number) == IF number = IntMax THEN IntMin ELSE number + 1

\* "user_" + std::to_string(id)
ClientId(id) == <<"user_", id>>

\* std::to_string(int): the decimal digits, with a leading '-' below zero.
DigitChar == <<"0", "1", "2", "3", "4", "5", "6", "7", "8", "9">>
RECURSIVE to_string(_)
to_string(n) ==
    IF n < 0 THEN "-" \o to_string(-n)
    ELSE IF n < 10 THEN DigitChar[n + 1]
    ELSE to_string(n \div 10) \o DigitChar[(n % 10) + 1]

\* The characters of the key ClientId(id) stands for.
KeyString(key) == key[1] \o to_string(key[2])

\* RequestHandler::generateJsonResponse / generateErrorResponse
generateJsonResponse(data) ==
    [success |-> TRUE, id |-> data.id, name |-> data.name, phone |-> data.phone,
     number |-> data.number, error |-> ""]
generateErrorResponse(error_message) ==
    [success |-> FALSE, id |-> 0, name |-> "", phone |-> "", number |-> 0,
     error |-> error_message]

NoResponse == generateErrorResponse("")

\* std::unordered_map<std::string, long long>: operator[] default-inserts 0.
MapGet(m, key) == IF key \in DOMAIN m THEN m[key] ELSE 0
MapPut(m, key, n) ==
    [k \in (DOMAIN m) \cup {key} |-> IF k = key THEN n ELSE m[k]]
EmptyMap == [k \in {} |-> 0]

\* ---- state of one RequestHandler ----------------------------------------
VARIABLES
    total_numbers_sum_,     \* std::atomic<long long>
    client_numbers_sum_,    \* unordered_map<string, long long>, under client_mutex_
    client_mutex_,          \* 0 when free, else the caller holding it
    requests_processed_,    \* std::atomic<size_t>
    successful_requests_,   \* std::atomic<size_t>
    failed_requests_,       \* std::atomic<size_t>
    rh_pc,                  \* per caller: position inside processRequestInternal
    rh_input,               \* per caller: json_input
    rh_user_data,           \* per caller: user_data
    rh_original,            \* per caller: original_number
    rh_loaded,              \* per caller: the map value read by operator[] +=
    rh_result,              \* per caller: the returned record
    rh_eff,                 \* history: what the current call itself has changed
    rh_expect,              \* history: what the calls made so far should add up to
    rh_budget,              \* history: sum of |number| over started calls
    rh_overlap              \* history: some call started while another was running

rh_vars == <<total_numbers_sum_, client_numbers_sum_, client_mutex_,
             requests_processed_, successful_requests_, failed_requests_,
             rh_pc, rh_input, rh_user_data, rh_original, rh_loaded, rh_result,
             rh_eff, rh_expect, rh_budget, rh_overlap>>

Abs(n) == IF n < 0 THEN -n ELSE n

NoEffect == [total |-> 0, client |-> EmptyMap, processed |-> 0, succ |-> 0, failed |-> 0]

\* The change the step being taken makes to the shared tallies, added to e.
Accumulate(e) ==
    [total     |-> e.total + (total_numbers_sum_' - total_numbers_sum_),
     client    |-> [k \in (DOMAIN e.client) \cup (DOMAIN client_numbers_sum_') |->
                      MapGet(e.client, k)
                      + (MapGet(client_numbers_sum_', k) - MapGet(client_numbers_sum_, k))],
     processed |-> e.processed + (requests_processed_' - requests_processed_),
     succ      |-> e.succ + (successful_requests_' - successful_requests_),
     failed    |-> e.failed + (failed_requests_' - failed_requests_)]

\* started: calls begun; total/client: the numbers of the valid bodies among
\* them; valid: how many were valid; ok/bad: records returned with success
\* true/false; ok_valid: records with success = true returned for valid bodies.
NoExpect == [started |-> 0, total |-> 0, client |-> EmptyMap, valid |-> 0,
             ok |-> 0, bad |-> 0, ok_valid |-> 0]

RHInit ==
    /\ total_numbers_sum_ = 0
    /\ client_numbers_sum_ = EmptyMap
    /\ client_mutex_ = 0
    /\ requests_processed_ = 0
    /\ successful_requests_ = 0
    /\ failed_requests_ = 0
    /\ rh_pc = [t \in RHThreads |-> "idle"]
    /\ rh_input = [t \in RHThreads |-> JNonDoc("empty")]
    /\ rh_user_data = [t \in RHThreads |-> NoData]
    /\ rh_original = [t \in RHThreads |-> 0]
    /\ rh_loaded = [t \in RHThreads |-> 0]
    /\ rh_result = [t \in RHThreads |-> NoResponse]
    /\ rh_eff = [t \in RHThreads |-> NoEffect]
    /\ rh_expect = NoExpect
    /\ rh_budget = 0
    /\ rh_overlap = FALSE

\* The number a body carries, 0 when it carries none.
BodyNumber(b) == IF b.kind = "object" /\ b.number.t = "int" THEN b.number.n ELSE 0

\* processRequestInternal line 199: requests_processed_++ on entry.
RhBegin(t, json_input) ==
    /\ rh_pc[t] = "idle"
    /\ requests_processed_ < MaxCalls
    /\ Abs(BodyNumber(json_input)) <= IntMax - rh_budget
    /\ rh_budget' = rh_budget + Abs(BodyNumber(json_input))
    /\ requests_processed_' = requests_processed_ + 1
    /\ rh_input' = [rh_input EXCEPT ![t] = json_input]
    /\ rh_pc' = [rh_pc EXCEPT ![t] = "parse"]
    /\ rh_overlap' =
         (rh_overlap \/ (/\ json_input \in ValidBodies
                         /\ \E u \in RHThreads \ {t} :
                              /\ rh_pc[u] \in {"parse", "fetch_add", "lock"}
                              /\ rh_input[u] \in ValidBodies
                              /\ rh_input[u].id = json_input.id))
    /\ rh_eff' = [rh_eff EXCEPT ![t] = [NoEffect EXCEPT !.processed = 1]]
    /\ rh_expect' =
         IF json_input \in ValidBodies
           THEN [rh_expect EXCEPT
                   !.started = @ + 1, !.valid = @ + 1,
                   !.total = @ + json_input.number.n,
                   !.client = MapPut(@, ClientId(json_input.id.n),
                                     MapGet(@, ClientId(json_input.id.n))
                                     + json_input.number.n)]
           ELSE [rh_expect EXCEPT !.started = @ + 1]
    /\ UNCHANGED <<total_numbers_sum_, client_numbers_sum_, client_mutex_,
                   successful_requests_, failed_requests_, rh_user_data,
                   rh_original, rh_loaded, rh_result>>

\* lines 204-219: parseJson, validateUserData, original_number, increase.
RhParse(t) ==
    /\ rh_pc[t] = "parse"
    /\ LET parsed == ParseJson(rh_input[t]) IN
         IF parsed.err # ""
           THEN /\ rh_result' = [rh_result EXCEPT ![t] = generateErrorResponse(parsed.err)]
                /\ rh_pc' = [rh_pc EXCEPT ![t] = "catch"]
                /\ UNCHANGED <<rh_user_data, rh_original>>
         ELSE IF ~validateUserData(parsed.data)
           THEN /\ rh_result' = [rh_result EXCEPT ![t] =
                                   generateErrorResponse("Invalid user data")]
                /\ rh_pc' = [rh_pc EXCEPT ![t] = "catch"]
                /\ UNCHANGED <<rh_user_data, rh_original>>
         ELSE /\ rh_original' = [rh_original EXCEPT ![t] = parsed.data.number]
              /\ rh_user_data' = [rh_user_data EXCEPT ![t] =
                                    [parsed.data EXCEPT !.number = increase(parsed.data.number)]]
              /\ rh_pc' = [rh_pc EXCEPT ![t] = "fetch_add"]
              /\ UNCHANGED rh_result
    /\ UNCHANGED <<total_numbers_sum_, client_numbers_sum_, client_mutex_,
                   requests_processed_, successful_requests_, failed_requests_,
                   rh_input, rh_loaded, rh_eff, rh_expect, rh_budget, rh_overlap>>

\* line 225: total_numbers_sum_.fetch_add(original_number), one atomic step.
RhFetchAdd(t) ==
    /\ rh_pc[t] = "fetch_add"
    /\ total_numbers_sum_' = total_numbers_sum_ + rh_original[t]
    /\ rh_pc' = [rh_pc EXCEPT ![t] = "lock"]
    /\ UNCHANGED <<client_numbers_sum_, client_mutex_, requests_processed_,
                   successful_requests_, failed_requests_, rh_input, rh_user_data,
                   rh_original, rh_loaded, rh_result, rh_expect, rh_budget, rh_overlap>>
    /\ rh_eff' = [rh_eff EXCEPT ![t] = Accumulate(@)]

\* line 228: std::lock_guard<std::mutex> lock(client_mutex_) blocks while held.
MutexIgnored(m) == TRUE

MutexFree(m) == m = 0

RhLock(t) ==
    /\ rh_pc[t] = "lock"
    /\ MutexFree(client_mutex_)
    /\ client_mutex_' = t
    /\ rh_pc' = [rh_pc EXCEPT ![t] = "map_load"]
    /\ UNCHANGED <<total_numbers_sum_, client_numbers_sum_, requests_processed_,
                   successful_requests_, failed_requests_, rh_input, rh_user_data,
                   rh_original, rh_loaded, rh_result, rh_eff, rh_expect, rh_budget,
                   rh_overlap>>

\* line 229: client_numbers_sum_[client_id] += original_number is a read ...
RhMapLoad(t) ==
    /\ rh_pc[t] = "map_load"
    /\ rh_loaded' = [rh_loaded EXCEPT ![t] =
                       MapGet(client_numbers_sum_, ClientId(rh_user_data[t].id))]
    /\ rh_pc' = [rh_pc EXCEPT ![t] = "map_store"]
    /\ UNCHANGED <<total_numbers_sum_, client_numbers_sum_, client_mutex_,
                   requests_processed_, successful_requests_, failed_requests_,
                   rh_input, rh_user_data, rh_original, rh_result, rh_eff, rh_expect,
                   rh_budget, rh_overlap>>

\* ... followed by a write; line 230 ends the lock_guard's scope.
RhMapStore(t) ==
    /\ rh_pc[t] = "map_store"
    /\ client_numbers_sum_' = MapPut(client_numbers_sum_, ClientId(rh_user_data[t].id),
                                      rh_loaded[t] + rh_original[t])
    /\ client_mutex_' = 0
    /\ rh_pc' = [rh_pc EXCEPT ![t] = "respond"]
    /\ UNCHANGED <<total_numbers_sum_, requests_processed_, successful_requests_,
                   failed_requests_, rh_input, rh_user_data, rh_original, rh_loaded,
                   rh_result, rh_expect, rh_budget, rh_overlap>>
    /\ rh_eff' = [rh_eff EXCEPT ![t] = Accumulate(@)]

\* lines 233-237: generateJsonResponse, successful_requests_++, return.
RhSucceed(t) ==
    /\ rh_pc[t] = "respond"
    /\ rh_result' = [rh_result EXCEPT ![t] = generateJsonResponse(rh_user_data[t])]
    /\ successful_requests_' = successful_requests_ + 1
    /\ rh_pc' = [rh_pc EXCEPT ![t] = "ret"]
    /\ UNCHANGED <<total_numbers_sum_, client_numbers_sum_, client_mutex_,
                   requests_processed_, failed_requests_, rh_input, rh_user_data,
                   rh_original, rh_loaded, rh_expect, rh_budget, rh_overlap>>
    /\ rh_eff' = [rh_eff EXCEPT ![t] = Accumulate(@)]

\* lines 239-244: the catch block, failed_requests_++, generateErrorResponse.
RhCatch(t) ==
    /\ rh_pc[t] = "catch"
    /\ failed_requests_' = failed_requests_ + 1
    /\ rh_pc' = [rh_pc EXCEPT ![t] = "ret"]
    /\ UNCHANGED <<total_numbers_sum_, client_numbers_sum_, client_mutex_,
                   requests_processed_, successful_requests_, rh_input, rh_user_data,
                   rh_original, rh_loaded, rh_result, rh_expect, rh_budget, rh_overlap>>
    /\ rh_eff' = [rh_eff EXCEPT ![t] = Accumulate(@)]

\* The caller receives the record (processRequest line 249 / future.get()).
RhReturn(t) ==
    /\ rh_pc[t] = "ret"
    /\ rh_expect' =
         [rh_expect EXCEPT
            !.ok = IF rh_result[t].success THEN @ + 1 ELSE @,
            !.bad = IF rh_result[t].success THEN @ ELSE @ + 1,
            !.ok_valid = IF rh_result[t].success /\ rh_input[t] \in ValidBodies
                           THEN @ + 1 ELSE @]
    /\ rh_pc' = [rh_pc EXCEPT ![t] = "idle"]
    /\ rh_input' = [rh_input EXCEPT ![t] = JNonDoc("empty")]
    /\ rh_user_data' = [rh_user_data EXCEPT ![t] = NoData]
    /\ rh_original' = [rh_original EXCEPT ![t] = 0]
    /\ rh_loaded' = [rh_loaded EXCEPT ![t] = 0]
    /\ rh_result' = [rh_result EXCEPT ![t] = NoResponse]
    /\ rh_eff' = [rh_eff EXCEPT ![t] = NoEffect]
    /\ UNCHANGED <<total_numbers_sum_, client_numbers_sum_, client_mutex_,
                   requests_processed_, successful_requests_, failed_requests_,
                   rh_budget, rh_overlap>>

\* GET /numbers/sum-all, MultiplexingServer.cpp lines 591-608, run by a
\* worker thread next to the threads inside processRequest.  The response
\* under construction is kept in rh_result.
\* Line 594: getAllClientSums() copies the map under client_mutex_.
RhSumAllClients(t) ==
    /\ rh_pc[t] = "idle"
    /\ MutexFree(client_mutex_)
    /\ rh_result' = [rh_result EXCEPT ![t] =
                       [success |-> TRUE, clients |-> client_numbers_sum_, total |-> 0]]
    /\ rh_pc' = [rh_pc EXCEPT ![t] = "sum_all_total"]
    /\ UNCHANGED <<total_numbers_sum_, client_numbers_sum_, client_mutex_,
                   requests_processed_, successful_requests_, failed_requests_,
                   rh_input, rh_user_data, rh_original, rh_loaded, rh_eff, rh_expect,
                   rh_budget, rh_overlap>>

\* Line 607: getTotalNumbersSum() loads the atomic total; the response is
\* complete.
RhSumAllTotal(t) ==
    /\ rh_pc[t] = "sum_all_total"
    /\ rh_result' = [rh_result EXCEPT ![t].total = total_numbers_sum_]
    /\ rh_pc' = [rh_pc EXCEPT ![t] = "sum_all_ret"]
    /\ UNCHANGED <<total_numbers_sum_, client_numbers_sum_, client_mutex_,
                   requests_processed_, successful_requests_, failed_requests_,
                   rh_input, rh_user_data, rh_original, rh_loaded, rh_eff, rh_expect,
                   rh_budget, rh_overlap>>

\* Line 608: the response is returned.
RhSumAllReturn(t) ==
    /\ rh_pc[t] = "sum_all_ret"
    /\ rh_result' = [rh_result EXCEPT ![t] = NoResponse]
    /\ rh_pc' = [rh_pc EXCEPT ![t] = "idle"]
    /\ UNCHANGED <<total_numbers_sum_, client_numbers_sum_, client_mutex_,
                   requests_processed_, successful_requests_, failed_requests_,
                   rh_input, rh_user_data, rh_original, rh_loaded, rh_eff, rh_expect,
                   rh_budget, rh_overlap>>

RHSumAll ==
    \E t \in RHThreads :
        \/ RhSumAllClients(t)
        \/ RhSumAllTotal(t)
        \/ RhSumAllReturn(t)

\* GET /numbers/sum/<client id>, MultiplexingServer.cpp lines 583-590.
\* std::string::find(prefix) == 0 and std::string::substr(13) on the path.
SumPrefix == "/numbers/sum/"
StartsWith(path, prefix) ==
    Len(path) >= Len(prefix) /\ SubSeq(path, 1, Len(prefix)) = prefix
ClientIdOf(path) == SubSeq(path, 13 + 1, Len(path))

\* A per-client lookup that goes through operator[], which default-inserts
\* the key it does not find.
getClientNumbersSumInserts(m, client_id) ==
    LET hits == { k \in DOMAIN m : KeyString(k) = client_id }
    IN IF hits = {} THEN [sum |-> 0, map |-> MapPut(m, <<client_id, 0>>, 0)]
       ELSE [sum |-> m[CHOOSE k \in hits : TRUE], map |-> m]

\* RequestHandler::getClientNumbersSum (RequestHandler.h lines 36-41):
\* find(client_id) under client_mutex_, 0 when the key is absent; the map
\* as the call leaves it.
getClientNumbersSum(m, client_id) ==
    LET hits == { k \in DOMAIN m : KeyString(k) = client_id }
    IN IF hits = {} THEN [sum |-> 0, map |-> m]
       ELSE [sum |-> m[CHOOSE k \in hits : TRUE], map |-> m]

\* Lines 585-588: the lookup and the JSON content; the response under
\* construction is kept in rh_result, with the path it answers.
RhClientSum(t, path) ==
    /\ rh_pc[t] = "idle"
    /\ StartsWith(path, SumPrefix)
    /\ MutexFree(client_mutex_)
    /\ LET client_id == ClientIdOf(path)
           found == getClientNumbersSum(client_numbers_sum_, client_id)
       IN /\ rh_result' = [rh_result EXCEPT ![t] =
                             [success |-> TRUE, client_id |-> client_id,
                              numbers_sum |-> found.sum, path |-> path]]
          /\ client_numbers_sum_' = found.map
    /\ rh_pc' = [rh_pc EXCEPT ![t] = "client_sum_ret"]
    /\ UNCHANGED <<total_numbers_sum_, client_mutex_,
                   requests_processed_, successful_requests_, failed_requests_,
                   rh_input, rh_user_data, rh_original, rh_loaded, rh_eff, rh_expect,
                   rh_budget, rh_overlap>>

\* Line 589: the response is returned.
RhClientSumReturn(t) ==
    /\ rh_pc[t] = "client_sum_ret"
    /\ rh_result' = [rh_result EXCEPT ![t] = NoResponse]
    /\ rh_pc' = [rh_pc EXCEPT ![t] = "idle"]
    /\ UNCHANGED <<total_numbers_sum_, client_numbers_sum_, client_mutex_,
                   requests_processed_, successful_requests_, failed_requests_,
                   rh_input, rh_user_data, rh_original, rh_loaded, rh_eff, rh_expect,
                   rh_budget, rh_overlap>>

\* The paths the clients query: the ids used in the bodies, an id no body
\* uses, and the bare prefix.
ClientSumPaths ==
    { SumPrefix \o KeyString(ClientId(i)) : i \in Ids \cup {10} } \cup {SumPrefix}

RHClientSum ==
    \E t \in RHThreads :
        \/ \E path \in ClientSumPaths : RhClientSum(t, path)
        \/ RhClientSumReturn(t)

RHNext ==
    \E t \in RHThreads :
        \/ \E b \in Bodies : RhBegin(t, b)
        \/ RhParse(t)
        \/ RhFetchAdd(t)
        \/ RhLock(t)
        \/ RhMapLoad(t)
        \/ RhMapStore(t)
        \/ RhSucceed(t)
        \/ RhCatch(t)
        \/ RhReturn(t)


(***************************************************************************)
(* Part 2.  MultiplexingServer: bytes, framing, routing                    *)
(***************************************************************************)

\* ---- program constants ---------------------------------------------------
\* ServerConfig::connection_timeout, seconds.
connection_timeout == 60
\* checkConnectionHealth's hard-coded inactivity limit, seconds.
HealthIdleLimit == 30
\* runServer: seconds between two health checks.
HealthPeriod == 5
\* ServerConfig::enable_epollout_optimization, its default.
enable_epollout_optimization == TRUE

\* ---- bounds of the server model -----------------------------------------
\* File descriptors the process can hold for client sockets.
NFd == 2
\* ClientConnection objects the heap can hold.
NObj == 2
\* ThreadPool workers (ServerConfig::thread_pool_size, scaled).
NWorkers == 2
\* TCP connections the clients open in one behaviour.
MaxConns == 2
\* Connections that carry request traffic in specification Spec.
TrafficConns == 1
\* Messages the clients send in one behaviour of specification SpecIdle.
IdleSends == 1
\* Messages the clients send in one behaviour.
MaxSends == 2
\* Tasks the framing loop enqueues in one behaviour.
MaxTasks == 3
\* Exceptions thrown inside worker tasks in one behaviour.
MaxThrows == 1
\* size_t is modelled modulo SizeMod (2^64 in the build).
SizeMod == 32
\* ServerConfig::max_read_buffer_size and max_write_buffer_size (65536 bytes
\* in the source), in abstract bytes.
MaxReadBuf == 12
MaxWriteBuf == 3
\* readAvailable's scratch buffer (4096 bytes in the source), in abstract bytes.
RecvBuf == 10
\* ConnectionPool::release's cap (100 objects in the source), scaled.
PoolCap == 1
\* ServerConfig::max_concurrent_connections (10000 in the source), scaled.
\* No statement of the server reads it.
max_concurrent_connections == 1
\* Requests a client writes back to back in one send() (specification
\* SpecPipeline), and the sends of that specification.
MaxPipeline == 4
PipelineSends == 1
\* Messages the clients send in one behaviour of specification SpecReuse.
ReuseSends == 2
\* threads of the ThreadPool seen step by step, and tasks enqueued to it
TPThreads == 2
TPTasks == 2
\* worker threads and connection objects of the mutex model
LockWorkers == 1
LockObjects == 2
\* threads calling updateWriteBufferSize, their calls in all, the sizes
NObservers == 2
GaugeCalls == 3
MaxObserved == 3
\* connection objects and cap of the ConnectionPool seen alone
PoolObjects == 5
PoolAloneCap == 2
\* the descriptor limit of SpecAccept
FewDescriptors == 1
\* requests the clients send in SpecDrain
DrainSends == 2
\* Messages the clients send in one behaviour of specification SpecDispatch.
DispatchSends == 1
\* Length of one HTTP response, in abstract bytes.
RespLen == 2
\* The clock: time(nullptr) advances MaxTicks times by TickStep seconds.
TickStep == 31
MaxTicks == 2
MaxTime == MaxTicks * TickStep

FDs == 1..NFd
Objs == 1..NObj
Workers == 1..NWorkers
Gens == 1..MaxConns
TPWorkers == 1..TPThreads
Observers == 1..NObservers

\* Thread 1 is the runServer thread, then come the ThreadPool workers, the
\* last one is any other thread of the process (main thread, tests).
LoopThread == 1
WorkerThreads == 2..(LockWorkers + 1)
OtherThread == LockWorkers + 2
LockThreads == 1..(LockWorkers + 2)

write_mutex_(o) == "write_mutex_" \o to_string(o)
Mutexes == {"clients_mutex_", "pool_mutex_", "queue_mutex_", "client_mutex_",
            "duration_mutex_", "histogram_mutex_", "rps_mutex_", "connection_mutex_"}
           \cup { write_mutex_(o) : o \in 1..LockObjects }

\* std::string::npos and the fd_ of a closed ClientConnection.
npos == -1
NoFd == -1

\* ---- abstract bytes --------------------------------------------------------
\* The byte stream of a connection is a sequence of abstract bytes.  "\r" and
\* "\n" are kept as bytes of their own; a request line, a header line and a
\* JSON body each count as one abstract byte:
\*   k = "CR", "LF"
\*   k = "RL"    a request line "<m> <p> HTTP/1.1" (two spaces); r numbers the
\*               client's requests on the connection
\*   k = "RL1"   a request line with a single space, "RL0" with none
\*   k = "CL"    a header line "Content-Length: <value>"; m says how the value
\*               is written: "dec" (decimal digits of n), "neg" ("-" and the
\*               digits of n), "junk" (no digits), "huge" (digits of a number
\*               above ULONG_MAX)
\*   k = "BODY"  a JSON body j
\*   k = "PAD"   any other body byte
Byte(k, m, path, n, r, j) == [k |-> k, m |-> m, p |-> path, n |-> n, r |-> r, j |-> j]
CR == Byte("CR", "", "", 0, 0, JNonDoc("empty"))
LF == Byte("LF", "", "", 0, 0, JNonDoc("empty"))
PAD == Byte("PAD", "", "", 0, 0, JNonDoc("empty"))
RequestLine(m, path, r) == Byte("RL", m, path, 0, r, JNonDoc("empty"))
ContentLength(m, n) == Byte("CL", m, "", n, 0, JNonDoc("empty"))
BodyByte(j) == Byte("BODY", "", "", 0, 0, j)

\* std::string::substr(pos, count): count is clamped to the end of the string.
Substr(str, pos, count) ==
    LET last == IF pos + count > Len(str) THEN Len(str) ELSE pos + count
    IN SubSeq(str, pos + 1, last)

\* std::string::find(pat, pos) for a pattern of abstract bytes.
Find(str, pat, pos) ==
    LET hits == { i \in pos..(Len(str) - Len(pat)) :
                    \A d \in 1..Len(pat) : str[i + d] = pat[d] }
    IN IF hits = {} THEN npos ELSE CHOOSE i \in hits : \A h \in hits : i <= h

\* find("Content-Length:") inside the header block.
FindContentLength(headers_str) ==
    LET hits == { i \in 0..(Len(headers_str) - 1) : headers_str[i + 1].k = "CL" }
    IN IF hits = {} THEN npos ELSE CHOOSE i \in hits : \A h \in hits : i <= h

\* std::stoul on the trimmed header value: the value, or a throw.  A leading
\* minus sign is accepted and the result negated in the unsigned type.
Stoul(cl) ==
    IF cl.m = "dec" THEN [ok |-> TRUE, value |-> cl.n % SizeMod]
    ELSE IF cl.m = "neg" THEN [ok |-> TRUE, value |-> (SizeMod - cl.n) % SizeMod]
    ELSE [ok |-> FALSE, value |-> 0]

\* The request the header block at the cursor belongs to (the number of its
\* request line), 0 when the block holds no request line.
RequestOf(headers_str) ==
    LET hits == { i \in 1..Len(headers_str) : headers_str[i].k = "RL" }
    IN IF hits = {} THEN 0
       ELSE headers_str[CHOOSE i \in hits : \A h \in hits : i <= h].r

\* One pass of the while loop of ClientConnection::processRequests at
\* cursor pos: "break" (incomplete headers, invalid Content-Length or
\* incomplete body) or "task" with the request cut out and the next cursor.
FrameOne(read_buffer, pos) ==
    LET header_end == Find(read_buffer, <<CR, LF, CR, LF>>, pos)
        headers_str == Substr(read_buffer, pos, header_end - pos + 4)
        cl_pos == FindContentLength(headers_str)
        parsed == IF cl_pos = npos THEN [ok |-> TRUE, value |-> 0]
                  ELSE Stoul(headers_str[cl_pos + 1])
        body_start == header_end + 4
        total_request_length == (body_start + parsed.value) % SizeMod
        none == [kind |-> "break", why |-> "", request |-> <<>>, pos |-> pos, r |-> 0,
                 cl |-> 0]
    IN IF header_end = npos THEN [none EXCEPT !.why = "headers"]
       ELSE IF ~parsed.ok THEN [none EXCEPT !.why = "content-length"]
       ELSE IF Len(read_buffer) < total_request_length THEN [none EXCEPT !.why = "body"]
       ELSE [kind |-> "task", why |-> "",
             request |-> Substr(read_buffer, pos, total_request_length),
             pos |-> total_request_length,
             r |-> RequestOf(headers_str),
             cl |-> parsed.value]

\* Lines 396-407: erase the consumed prefix, then the redundant size check.
AfterFraming(read_buffer, pos) ==
    LET erased == IF pos > 0 THEN Substr(read_buffer, pos, Len(read_buffer))
                  ELSE read_buffer
    IN IF Len(erased) > MaxReadBuf THEN <<>> ELSE erased

\* Number of ' ' characters an abstract byte stands for.
Spaces(b) == IF b.k = "RL" THEN 2 ELSE IF b.k \in {"RL1", "CL"} THEN 1 ELSE 0

RECURSIVE SumSpaces(_)
SumSpaces(line) == IF line = <<>> THEN 0 ELSE Spaces(Head(line)) + SumSpaces(Tail(line))

\* The header loop of parseHttpRequestOptimized (lines 462-510): the offset
\* just past the first empty line at or after pos, npos when there is none.
RECURSIVE HeadersEnd(_, _)
HeadersEnd(data, pos) ==
    IF pos >= Len(data) THEN npos
    ELSE LET line_end == Find(data, <<CR, LF>>, pos)
         IN IF line_end = npos THEN npos
            ELSE IF line_end = pos THEN line_end + 2
            ELSE HeadersEnd(data, line_end + 2)

\* ClientConnection::parseHttpRequestOptimized
parseHttpRequestOptimized(data) ==
    LET first_line_end == Find(data, <<CR, LF>>, 0)
        request_line == Substr(data, 0, first_line_end)
        headers_end == HeadersEnd(data, first_line_end + 2)
        failed == [ok |-> FALSE, method |-> "", path |-> "", body |-> <<>>]
    IN IF first_line_end = npos THEN failed
       ELSE IF SumSpaces(request_line) < 2 THEN failed
       ELSE [ok |-> TRUE,
             method |-> IF Len(request_line) = 1 THEN request_line[1].m ELSE "?",
             path |-> IF Len(request_line) = 1 THEN request_line[1].p ELSE "?",
             body |-> IF headers_end # npos /\ headers_end < Len(data)
                        THEN Substr(data, headers_end, Len(data))
                        ELSE <<>>]

\* The std::string body handed to RequestHandler::processRequest, as the
\* JSON document rapidjson sees: one BODY byte is that document, anything
\* else does not parse.
BodyJson(body) ==
    IF Len(body) = 1 /\ body[1].k = "BODY" THEN body[1].j ELSE JNonDoc("malformed")

\* ClientConnection::handleHttpRequest: the branch taken (route), the client
\* id the /numbers/sum/ branch extracts, the status code, the "error" member
\* of the JSON content ("" when it has none), and whether
\* RequestHandler::processRequest is called with the body.
Routed(route, client_id, status, error, process) ==
    [route |-> route, client_id |-> client_id, status |-> status, error |-> error,
     process |-> process]

\* A router that compares every path exactly.
handleHttpRequestExact(method, path, body) ==
    IF method = "GET" /\ path \in {"/health", "/metrics", "/numbers/sum",
                                  "/numbers/sum-all", "/"}
      THEN Routed(path, "", 200, "", FALSE)
    ELSE IF method = "POST" /\ path = "/process"
      THEN IF body = <<>> THEN Routed("/process", "", 400, "Empty request body", FALSE)
           ELSE Routed("/process", "", 200, "", TRUE)
    ELSE Routed("", "", 404, "Endpoint not found", FALSE)

handleHttpRequest(method, path, body) ==
    IF method = "GET" /\ path = "/health" THEN Routed("/health", "", 200, "", FALSE)
    ELSE IF method = "GET" /\ path = "/metrics" THEN Routed("/metrics", "", 200, "", FALSE)
    ELSE IF method = "GET" /\ path = "/numbers/sum"
      THEN Routed("/numbers/sum", "", 200, "", FALSE)
    ELSE IF method = "GET" /\ StartsWith(path, SumPrefix)
      THEN Routed(SumPrefix, ClientIdOf(path), 200, "", FALSE)
    ELSE IF method = "GET" /\ path = "/numbers/sum-all"
      THEN Routed("/numbers/sum-all", "", 200, "", FALSE)
    ELSE IF method = "GET" /\ path = "/" THEN Routed("/", "", 200, "", FALSE)
    ELSE IF method = "POST" /\ path = "/process"
      THEN IF body = <<>> THEN Routed("/process", "", 400, "Empty request body", FALSE)
           ELSE Routed("/process", "", 200, "", TRUE)
    ELSE Routed("", "", 404, "Endpoint not found", FALSE)

\* The lambda's own answers (lines 357-369): the request did not parse, or a
\* std::exception reached the catch block.
NotParsed == Routed("", "", 400, "Invalid HTTP request", FALSE)
Thrown == Routed("", "", 500, "Internal server error", FALSE)
\* No request handled.
NoHandled == Routed("", "", 0, "", FALSE)

\* ClientConnection::createHttpResponse: the bytes of one response.  g and r
\* name the connection and request the task was cut from.
createHttpResponse(g, r, status_code) ==
    [i \in 1..RespLen |-> [g |-> g, r |-> r, status |-> status_code, i |-> i]]

\* ---- what the clients send -------------------------------------------------
GetHealth(r) == <<RequestLine("GET", "/health", r), CR, LF, CR, LF>>
PostProcess(r, j) ==
    <<RequestLine("POST", "/process", r), CR, LF, ContentLength("dec", 1), CR, LF,
      CR, LF, BodyByte(j)>>
\* A GET request for path.
Get(path, r) == <<RequestLine("GET", path, r), CR, LF, CR, LF>>
\* A request head announcing a body of the given Content-Length.
PostHead(r, m, n) ==
    <<RequestLine("POST", "/process", r), CR, LF, ContentLength(m, n), CR, LF, CR, LF>>
\* No request line at all.
Garbage == <<Byte("RL0", "", "", 0, 0, JNonDoc("empty")), CR, LF, CR, LF>>
Padding == <<PAD, PAD, PAD, PAD, PAD>>
\* A header line without ':' (k = "HL") after a well-formed request line.
NoColonHeader(r) ==
    <<RequestLine("GET", "/health", r), CR, LF,
      Byte("HL", "", "", 0, 0, JNonDoc("empty")), CR, LF, CR, LF>>
\* "Content-Length: abc": std::stoul throws std::invalid_argument.
BadContentLength(r) == PostHead(r, "junk", 0)
\* A request line with a single space.
OneSpace == <<Byte("RL1", "", "", 0, 0, JNonDoc("empty")), CR, LF, CR, LF>>

(***************************************************************************)
(* Part 3.  MultiplexingServer: sockets, connections, event loop, workers  *)
(***************************************************************************)
VARIABLES
    now,                \* time(nullptr)
    tcp,                \* per TCP connection: state, bytes in flight to the server
                        \*   (inq), FIN received (fin), bytes the kernel has taken
                        \*   from the server (sent, and which: out), the responses
                        \*   appended to the write buffer serving it (app), the
                        \*   client's next request number
    backlog,            \* established connections not yet accepted
    c_sends,            \* messages the clients have sent
    fd_table,           \* per descriptor: the TCP connection it is open on, 0 if closed
    epoll_reg,          \* per descriptor: its registration in epoll_fd_
    clients_,           \* unordered_map<int, shared_ptr<ClientConnection>>, 0 if absent
    pool_,              \* ConnectionPool::pool_
    conns,              \* the ClientConnection objects on the heap
    tasks_,             \* ThreadPool::tasks_
    enqueued,           \* tasks enqueued so far
    workers,            \* per worker thread: position, task, response
    el_pc,              \* position of the runServer thread
    el_batch,           \* events returned by epoll_wait and not yet handled
    el_fd,              \* handleClientEvent's client_fd while it runs
    el_events,          \* handleClientEvent's events while it runs
    el_pos,             \* processRequests' pos while it runs
    last_health_check,  \* runServer's local
    throws,             \* exceptions thrown inside worker tasks so far
    metrics,            \* the Metrics singleton's counters
    config_,            \* MultiplexingServer::config_ (ServerConfig)
    thread_pool_,       \* the ThreadPool seen step by step: stop_, tasks_,
                        \* queue_mutex_, the waiters of condition_, its threads
    rlimit_nofile,      \* descriptors the process may hold for connections
                        \* (RLIMIT_NOFILE less what else it has open)
    connection_pool_,   \* a ConnectionPool seen alone: its vector pool_ and
                        \* the objects its callers hold
    buffer_gauge,       \* Metrics::max_write_buffer_size_ and the threads
                        \* inside updateWriteBufferSize
    locking             \* the mutexes: who owns each, and the lock and
                        \* unlock calls each thread still has to make

\* What the steps of the event loop and of the tasks leave alone.
aside_vars == <<thread_pool_, rlimit_nofile, connection_pool_, buffer_gauge, locking>>

server_vars == <<now, tcp, backlog, c_sends, fd_table, epoll_reg, clients_, pool_, conns,
                 tasks_, enqueued, workers, el_pc, el_batch, el_fd, el_events, el_pos,
                 last_health_check, throws, metrics, config_>>

srv_vars == <<server_vars, aside_vars>>

vars == <<rh_vars, srv_vars>>

\* A ClientConnection that does not exist (never built, or destroyed).
NoConn == [alive |-> FALSE, fd_ |-> NoFd, read_buffer_ |-> <<>>, write_buffer_ |-> <<>>,
           active_ |-> FALSE, last_activity_ |-> 0, gen |-> 0]

\* A task of the ThreadPool: the captured this and complete_request; g, r and
\* cl name the connection, the request and the Content-Length value the task
\* was cut for.
NoTask == [this |-> 0, complete_request |-> <<>>, g |-> 0, r |-> 0, cl |-> 0]
\* content is what the handler rendered into the response body, for the
\* routes that report counters or sums.
IdleWorker == [pc |-> "wait", task |-> NoTask, response |-> <<>>, content |-> <<>>,
               handled |-> NoHandled]

\* Metrics::Metrics: every counter starts at 0.
NoMetrics == [requests_total_ |-> 0, requests_successful_ |-> 0, requests_failed_ |-> 0,
              connections_total_ |-> 0, active_connections_ |-> 0,
              bytes_received_ |-> 0, bytes_sent_ |-> 0,
              request_duration_count_ |-> 0, connection_duration_count_ |-> 0]

\* Metrics::incrementConnections and Metrics::decrementConnections
incrementConnections(M) == [M EXCEPT !.connections_total_ = @ + 1,
                                     !.active_connections_ = @ + 1]
decrementConnections(M) ==
    IF M.active_connections_ > 0 THEN [M EXCEPT !.active_connections_ = @ - 1] ELSE M

\* The fields of ServerConfig the model reads.
ServerConfig(epollout_optimization) ==
    [enable_epollout_optimization |-> epollout_optimization]

\* ThreadPool::ThreadPool: stop_ false, an empty queue, queue_mutex_ free (0),
\* nobody waiting on condition_, every thread about to lock queue_mutex_.
\* owner is the thread that enqueues and later destroys the pool; next is
\* the task it enqueues next, ran the tasks executed so far, in order.
NewThreadPool ==
    [stop_ |-> FALSE, tasks_ |-> <<>>, queue_mutex_ |-> 0,
     pc |-> [w \in TPWorkers |-> "lock"], task |-> [w \in TPWorkers |-> 0],
     owner |-> "run", next |-> 1, popped |-> <<>>, ran |-> <<>>]

\* The server after initializeServer, whatever its configuration.
SrvStart ==
    /\ thread_pool_ = NewThreadPool
    /\ connection_pool_ = [pool_ |-> <<>>, held |-> {}]
    /\ locking = [owner |-> [m \in Mutexes |-> 0],
                  script |-> [t \in LockThreads |-> <<>>]]
    /\ buffer_gauge = [max_write_buffer_size_ |-> 0,
                       pc |-> [t \in Observers |-> "idle"],
                       size |-> [t \in Observers |-> 0],
                       value |-> [t \in Observers |-> 0],
                       observed |-> {}, calls |-> 0]
    /\ now = 0
    /\ tcp = [g \in Gens |-> [state |-> "none", inq |-> <<>>, fin |-> FALSE,
                              sent |-> 0, next_r |-> 1, out |-> <<>>, app |-> <<>>]]
    /\ backlog = <<>>
    /\ c_sends = 0
    /\ fd_table = [f \in FDs |-> 0]
    /\ epoll_reg = [f \in FDs |-> "none"]
    /\ clients_ = [f \in FDs |-> 0]
    /\ pool_ = <<>>
    /\ conns = [o \in Objs |-> NoConn]
    /\ tasks_ = <<>>
    /\ enqueued = 0
    /\ workers = [w \in Workers |-> IdleWorker]
    /\ el_pc = "wait"
    /\ el_batch = {}
    /\ el_fd = 0
    /\ el_events = {}
    /\ el_pos = 0
    /\ last_health_check = 0
    /\ throws = 0
    /\ metrics = NoMetrics

\* The default configuration.
SrvInit ==
    /\ SrvStart
    /\ config_ = ServerConfig(enable_epollout_optimization)
    /\ rlimit_nofile = NFd

Init == RHInit /\ SrvInit

\* Either setting of enable_epollout_optimization.
InitAnyConfig ==
    /\ RHInit
    /\ SrvStart
    /\ config_ \in { ServerConfig(b) : b \in BOOLEAN }
    /\ rlimit_nofile = NFd

\* A process that can hold only FewDescriptors connection descriptors.
InitFewDescriptors ==
    /\ RHInit
    /\ SrvStart
    /\ config_ = ServerConfig(enable_epollout_optimization)
    /\ rlimit_nofile = FewDescriptors

\* ---- the part of the state the server's helpers transform ----------------
Cur == [fds |-> fd_table, ep |-> epoll_reg, clients |-> clients_, pool |-> pool_,
        conns |-> conns, tcp |-> tcp, metrics |-> metrics]

Commit(Kx) ==
    \E K \in {Kx} :
        /\ fd_table' = K.fds
        /\ epoll_reg' = K.ep
        /\ clients_' = K.clients
        /\ pool_' = K.pool
        /\ conns' = K.conns
        /\ tcp' = K.tcp
        /\ metrics' = K.metrics

\* A TCP connection whose descriptor the server has closed; what the peer
\* sent and received on it is forgotten.
ClosedTcp == [state |-> "closed", inq |-> <<>>, fin |-> FALSE, sent |-> 0, next_r |-> 1,
              out |-> <<>>, app |-> <<>>]

\* Op applied to the value of x; x is evaluated once.
Apply(Op(_), x) == CHOOSE r \in { Op(v) : v \in {x} } : TRUE

IsOpen(K, fd) == fd \in FDs /\ K.fds[fd] # 0

\* ::close(fd): the descriptor is freed, the kernel drops its epoll
\* registration and the TCP connection ends.  EBADF changes nothing.
KernelClose(Kx, fd) ==
    LET Do(K) ==
        IF ~IsOpen(K, fd) THEN K
        ELSE [K EXCEPT !.tcp[K.fds[fd]] = ClosedTcp,
                       !.fds[fd] = 0,
                       !.ep[fd] = "none"]
    IN Apply(Do, Kx)

\* epoll_ctl(EPOLL_CTL_ADD / MOD / DEL): MOD and DEL fail on a descriptor
\* that is closed or not registered, and the failure is ignored.
addToEpoll(K, fd) == [K EXCEPT !.ep[fd] = "in"]
modifyEpoll(Kx, fd, mode) ==
    LET Do(K) ==
        IF IsOpen(K, fd) /\ K.ep[fd] # "none" THEN [K EXCEPT !.ep[fd] = mode] ELSE K
    IN Apply(Do, Kx)
removeFromEpoll(K, fd) == IF fd \in FDs THEN [K EXCEPT !.ep[fd] = "none"] ELSE K

\* ClientConnection::close
Close(Kx, o) ==
    LET Do(K) ==
        IF K.conns[o].fd_ # NoFd
          THEN [KernelClose(K, K.conns[o].fd_) EXCEPT
                   !.conns[o].fd_ = NoFd,
                   !.conns[o].active_ = FALSE,
                   !.metrics.connection_duration_count_ = @ + 1]
          ELSE K
    IN Apply(Do, Kx)

\* The last shared_ptr goes away: ~ClientConnection calls close().
Destroy(K, o) == [Close(K, o) EXCEPT !.conns[o] = NoConn]

\* ConnectionPool::release on the vector pool_: push_back while it holds
\* fewer than the cap, else the shared_ptr is dropped.
releaseInto(pool, conn, cap) == IF Len(pool) < cap THEN Append(pool, conn) ELSE pool

\* ConnectionPool::acquire taking the oldest pooled object.
acquireFromFront(pool, fresh) ==
    IF pool # <<>>
      THEN [conn |-> Head(pool), pool |-> Tail(pool), made |-> FALSE]
      ELSE [conn |-> fresh, pool |-> pool, made |-> TRUE]

\* ConnectionPool::acquire on the vector pool_: back() and pop_back() when it
\* is not empty, else make_shared of a new object (fresh).
acquireFrom(pool, fresh) ==
    IF pool # <<>>
      THEN [conn |-> pool[Len(pool)], pool |-> SubSeq(pool, 1, Len(pool) - 1), made |-> FALSE]
      ELSE [conn |-> fresh, pool |-> pool, made |-> TRUE]

\* ConnectionPool::release: keep the object while the pool is below its cap,
\* otherwise drop the reference.
release(Kx, o) ==
    LET Do(K) ==
        IF releaseInto(K.pool, o, PoolCap) # K.pool
          THEN [K EXCEPT !.pool = releaseInto(@, o, PoolCap)]
          ELSE Destroy(K, o)
    IN Apply(Do, Kx)

\* ClientConnection::reset
reset(K, o, fd, g, t) ==
    [K EXCEPT !.conns[o] = [alive |-> TRUE, fd_ |-> fd, read_buffer_ |-> <<>>,
                            write_buffer_ |-> <<>>, active_ |-> TRUE,
                            last_activity_ |-> t, gen |-> g]]

\* MultiplexingServer::closeClient
closeClient(Kx, client_fd) ==
    LET Do(K) ==
        IF K.clients[client_fd] = 0 THEN K
        ELSE LET client == K.clients[client_fd]
                 erased == [K EXCEPT !.clients[client_fd] = 0]
                 released == release(Close(removeFromEpoll(erased, client_fd), client),
                                     client)
             IN [released EXCEPT !.metrics = decrementConnections(@)]
    IN Apply(Do, Kx)

\* MultiplexingServer::cleanupInactiveClients, visiting the map's entries in
\* ascending descriptor order from fd on.
RECURSIVE cleanupFrom(_, _, _)
cleanupFrom(Kx, fd, t) ==
    LET Do(K) ==
        IF fd > NFd THEN K
        ELSE LET client == K.clients[fd]
             IN IF client # 0 /\ t - K.conns[client].last_activity_ > connection_timeout
                  THEN cleanupFrom(
                         [release(removeFromEpoll(K, fd), client) EXCEPT
                            !.clients[fd] = 0,
                            !.metrics = decrementConnections(@)],
                         fd + 1, t)
                  ELSE cleanupFrom(K, fd + 1, t)
    IN Apply(Do, Kx)

\* cleanupInactiveClients reaping nothing.
cleanupInactiveClientsOff(K, t) == K

cleanupInactiveClients(K, t) == cleanupFrom(K, 1, t)

\* recv(fd, buffer, 1, MSG_PEEK | MSG_DONTWAIT): "data", "eof" (0),
\* "again" (EAGAIN) or "error" (EBADF).
Peek(K, fd) ==
    IF ~IsOpen(K, fd) THEN "error"
    ELSE IF K.tcp[K.fds[fd]].inq # <<>> THEN "data"
    ELSE IF K.tcp[K.fds[fd]].fin THEN "eof"
    ELSE "again"

\* MultiplexingServer::checkConnectionHealth: collect, then close.
DeadConnections(Kx, t) ==
    LET Do(K) ==
        { fd \in FDs : /\ K.clients[fd] # 0
                       /\ \/ Peek(K, fd) \in {"eof", "error"}
                          \/ t - K.conns[K.clients[fd]].last_activity_ > HealthIdleLimit }
    IN Apply(Do, Kx)

RECURSIVE closeAll(_, _, _)
closeAll(K, dead, fd) ==
    IF fd > NFd THEN K
    ELSE closeAll(IF fd \in dead THEN closeClient(K, fd) ELSE K, dead, fd + 1)

checkConnectionHealth(Kx, t) ==
    LET Do(K) ==
        closeAll(K, DeadConnections(K, t), 1)
    IN Apply(Do, Kx)

\* ---- the clients and the clock -------------------------------------------
\* The clock advances while the runServer thread is blocked in epoll_wait.
Tick ==
    /\ el_pc = "wait"
    /\ now + TickStep <= MaxTime
    /\ now' = now + TickStep
    /\ UNCHANGED <<rh_vars, config_, aside_vars, tcp, backlog, c_sends, fd_table, epoll_reg, clients_, pool_,
                   conns, metrics, tasks_, enqueued, workers, el_pc, el_batch, el_fd, el_events,
                   el_pos, last_health_check, throws>>

\* connect(): connections are numbered in the order they are established.
ClientConnect(g) ==
    /\ tcp[g].state = "none"
    /\ \A h \in Gens : h < g => tcp[h].state # "none"
    /\ tcp' = [tcp EXCEPT ![g].state = "backlog"]
    /\ backlog' = Append(backlog, g)
    /\ UNCHANGED <<rh_vars, config_, aside_vars, now, c_sends, fd_table, epoll_reg, clients_, pool_,
                   conns, metrics, tasks_, enqueued, workers, el_pc, el_batch, el_fd, el_events,
                   el_pos, last_health_check, throws>>

\* What a client may write in one send(); r numbers the request.
Messages(r) ==
    { GetHealth(r),
      PostProcess(r, JObject(JInt(1), JStr("a"), JStr("p"), JInt(1))),
      Garbage,
      PostHead(r, "dec", MaxReadBuf + 1),
      PostHead(r, "neg", 5),
      Padding }

\* The messages of clients that only poll the health endpoint.
IdleMessages(r) == { GetHealth(r) }

HasRequestLine(msg) == \E i \in 1..Len(msg) : msg[i].k = "RL"

ClientSend(g, msg) ==
    /\ tcp[g].state \in {"backlog", "open"}
    /\ ~tcp[g].fin
    /\ c_sends < MaxSends
    /\ c_sends' = c_sends + 1
    /\ tcp' = [tcp EXCEPT ![g].inq = @ \o msg,
                          ![g].next_r = IF HasRequestLine(msg) THEN @ + 1 ELSE @]
    /\ UNCHANGED <<rh_vars, config_, aside_vars, now, backlog, fd_table, epoll_reg, clients_, pool_,
                   conns, metrics, tasks_, enqueued, workers, el_pc, el_batch, el_fd, el_events,
                   el_pos, last_health_check, throws>>

\* The client closes its end: the server's kernel receives FIN.
ClientClose(g) ==
    /\ tcp[g].state \in {"backlog", "open"}
    /\ ~tcp[g].fin
    /\ tcp' = [tcp EXCEPT ![g].fin = TRUE]
    /\ UNCHANGED <<rh_vars, config_, aside_vars, now, backlog, c_sends, fd_table, epoll_reg, clients_, pool_,
                   conns, metrics, tasks_, enqueued, workers, el_pc, el_batch, el_fd, el_events,
                   el_pos, last_health_check, throws>>

\* ---- the runServer thread --------------------------------------------------
heap_vars == <<fd_table, epoll_reg, clients_, pool_, conns, tcp>>

\* runServer lines 911-917, after each handled event: when the health check
\* is due, checkConnectionHealth, cleanupInactiveClients, and the new
\* last_health_check.
MaintenanceDue == now - last_health_check >= HealthPeriod
Maintain(Kx) ==
    LET Do(K) ==
        IF MaintenanceDue THEN cleanupInactiveClients(checkConnectionHealth(K, now), now)
        ELSE K
    IN Apply(Do, Kx)
EventHandled(K) ==
    /\ Commit(Maintain(K))
    /\ last_health_check' = IF MaintenanceDue THEN now ELSE last_health_check

\* The listening socket's descriptor in an event.
ListenFd == 0

\* The events epoll_wait reports for descriptor f when the sockets in
\* writable accept data: "IN" is EPOLLIN, "OUT" is EPOLLOUT, "HUP" stands
\* for EPOLLRDHUP.  g names the TCP connection the readiness belongs to.
ReadyEvents(f, writable) ==
    LET g == fd_table[f]
    IN [fd |-> f, g |-> g,
        ev |-> (IF tcp[g].inq # <<>> \/ tcp[g].fin THEN {"IN"} ELSE {})
               \cup (IF tcp[g].fin THEN {"HUP"} ELSE {})
               \cup (IF epoll_reg[f] = "inout" /\ f \in writable THEN {"OUT"} ELSE {})]

\* runServer line 888: epoll_wait returns what is ready now, or times out.
EpollWait(writable) ==
    /\ el_pc = "wait"
    /\ writable \subseteq { f \in FDs : epoll_reg[f] = "inout" }
    /\ el_batch' =
         (IF backlog # <<>> THEN {[fd |-> ListenFd, g |-> 0, ev |-> {"IN"}]} ELSE {})
         \cup { e \in { ReadyEvents(f, writable) :
                          f \in { h \in FDs : fd_table[h] # 0 /\ epoll_reg[h] # "none" } } :
                  e.ev # {} }
    /\ el_pc' = "events"
    /\ UNCHANGED <<rh_vars, config_, aside_vars, heap_vars, metrics, now, backlog, c_sends, tasks_, enqueued, workers,
                   el_fd, el_events, el_pos, last_health_check, throws>>

\* epoll_wait reporting EPOLLIN for descriptor f although no data is queued
\* when recv runs (a spurious readiness report: the datagram was dropped, or
\* another reader was faster).
EpollWaitSpuriousIn(f) ==
    /\ el_pc = "wait"
    /\ fd_table[f] # 0
    /\ epoll_reg[f] # "none"
    /\ tcp[fd_table[f]].inq = <<>>
    /\ ~tcp[fd_table[f]].fin
    /\ el_batch' = {[fd |-> f, g |-> fd_table[f],
                     ev |-> {"IN"} \cup (IF epoll_reg[f] = "inout" THEN {"OUT"} ELSE {})]}
    /\ el_pc' = "events"
    /\ UNCHANGED <<rh_vars, config_, aside_vars, heap_vars, metrics, now, backlog, c_sends, tasks_,
                   enqueued, workers, el_fd, el_events, el_pos, last_health_check, throws>>

\* runServer lines 903-906: the event of the listening socket.
ElDispatchListener ==
    /\ el_pc = "events"
    /\ \E e \in el_batch : /\ e.fd = ListenFd
                           /\ el_batch' = el_batch \ {e}
    /\ el_pc' = "accept"
    /\ UNCHANGED <<rh_vars, config_, aside_vars, heap_vars, metrics, now, backlog, c_sends, tasks_, enqueued, workers,
                   el_fd, el_events, el_pos, last_health_check, throws>>

\* The lowest descriptor that is not open.
FreeFds == { f \in FDs : f <= rlimit_nofile /\ fd_table[f] = 0 }
FreeFd == CHOOSE f \in FreeFds : \A h \in FreeFds : f <= h

\* handleNewConnection lines 943-973, one pass of its loop with a successful
\* accept4: ConnectionPool::acquire (pop and reset, or make_shared at any
\* free address), clients_[client_fd] = client, addToEpoll.
ElAccept(o) ==
    /\ el_pc = "accept"
    /\ backlog # <<>>
    /\ FreeFds # {}
    /\ o = acquireFrom(pool_, o).conn
    /\ acquireFrom(pool_, o).made => ~conns[o].alive
    /\ LET g == Head(backlog)
           client_fd == FreeFd
           accepted == [Cur EXCEPT !.fds[client_fd] = g,
                                   !.tcp[g].state = "open",
                                   !.pool = acquireFrom(pool_, o).pool]
           acquired == reset(accepted, o, client_fd, g, now)
           added == addToEpoll([acquired EXCEPT !.clients[client_fd] = o], client_fd)
       IN Commit([added EXCEPT !.metrics = incrementConnections(@)])
    /\ backlog' = Tail(backlog)
    /\ UNCHANGED <<rh_vars, config_, aside_vars, now, c_sends, tasks_, enqueued, workers, el_pc, el_batch,
                   el_fd, el_events, el_pos, last_health_check, throws>>

\* handleNewConnection with epoll_ctl(EPOLL_CTL_ADD) failing (ENOMEM, ENOSPC):
\* the connection is already in clients_ when addToEpoll throws
\* std::runtime_error (lines 1098-1101); nothing between there and the catch
\* block of runServer (lines 928-933) handles it, so the thread leaves its
\* loop.
ElAcceptFails(o) ==
    /\ el_pc = "accept"
    /\ backlog # <<>>
    /\ FreeFds # {}
    /\ o = acquireFrom(pool_, o).conn
    /\ acquireFrom(pool_, o).made => ~conns[o].alive
    /\ LET g == Head(backlog)
           client_fd == FreeFd
           accepted == [Cur EXCEPT !.fds[client_fd] = g,
                                   !.tcp[g].state = "open",
                                   !.pool = acquireFrom(pool_, o).pool]
           acquired == reset(accepted, o, client_fd, g, now)
       IN Commit([acquired EXCEPT !.clients[client_fd] = o])
    /\ backlog' = Tail(backlog)
    /\ el_pc' = "failed"
    /\ UNCHANGED <<rh_vars, config_, aside_vars, now, c_sends, tasks_, enqueued, workers, el_batch,
                   el_fd, el_events, el_pos, last_health_check, throws>>

\* handleNewConnection lines 944-952: accept4 fails with an error other than
\* EAGAIN (EMFILE: a connection is pending and the process has no descriptor
\* left); the error is logged.
ElAcceptError ==
    /\ el_pc = "accept"
    /\ backlog # <<>>
    /\ FreeFds = {}
    /\ el_pc' = "accept_error"
    /\ UNCHANGED <<rh_vars, config_, aside_vars, heap_vars, metrics, now, backlog, c_sends, tasks_,
                   enqueued, workers, el_batch, el_fd, el_events, el_pos, last_health_check,
                   throws>>

\* handleNewConnection line 953: continue, back to accept4.
ElAcceptRetry ==
    /\ el_pc = "accept_error"
    /\ el_pc' = "accept"
    /\ UNCHANGED <<rh_vars, config_, aside_vars, heap_vars, metrics, now, backlog, c_sends, tasks_,
                   enqueued, workers, el_batch, el_fd, el_events, el_pos, last_health_check,
                   throws>>

\* handleNewConnection lines 946-949: accept4 reports EAGAIN, the loop ends.
ElAcceptDone ==
    /\ el_pc = "accept"
    /\ backlog = <<>>
    /\ EventHandled(Cur)
    /\ el_pc' = "events"
    /\ UNCHANGED <<rh_vars, config_, aside_vars, now, backlog, c_sends, tasks_, enqueued, workers,
                   el_batch, el_fd, el_events, el_pos, throws>>

\* send(fd, ..., MSG_NOSIGNAL): the number of bytes the kernel takes, 0 for
\* EAGAIN, -1 for any other error.  A closed descriptor is EBADF; a peer that
\* has closed may reset the connection.
SendOutcomes(K, fd, len) ==
    IF ~IsOpen(K, fd) THEN {-1}
    ELSE IF K.tcp[K.fds[fd]].fin THEN {-1, len}
    ELSE {0, 1, len}

\* The kernel takes the first n bytes of o's write_buffer_ for descriptor fd,
\* and erase(0, n) drops them from the buffer.
Transmit(Kx, o, fd, n) ==
    LET Do(K) ==
        [K EXCEPT !.tcp[K.fds[fd]].sent = @ + n,
                  !.tcp[K.fds[fd]].out = @ \o SubSeq(K.conns[o].write_buffer_, 1, n),
                  !.conns[o].write_buffer_ = SubSeq(@, n + 1, Len(@))]
    IN Apply(Do, Kx)

\* writeAvailable treating EAGAIN like any other send error.
writeAvailableNoRetry(Kx, o, n, t) ==
    LET Do(K) ==
        LET c == K.conns[o]
        IN IF c.write_buffer_ = <<>>
             THEN [K |-> modifyEpoll(K, c.fd_, "in"), ok |-> TRUE]
           ELSE IF n > 0
             THEN LET sent == [Transmit(K, o, c.fd_, n) EXCEPT !.conns[o].last_activity_ = t]
                  IN [K |-> IF sent.conns[o].write_buffer_ = <<>>
                              THEN modifyEpoll(sent, c.fd_, "in") ELSE sent,
                      ok |-> TRUE]
           ELSE [K |-> [K EXCEPT !.conns[o].active_ = FALSE], ok |-> FALSE]
    IN Apply(Do, Kx)

\* ClientConnection::writeAvailable with send's outcome n: the new state and
\* the returned bool.
writeAvailable(Kx, o, n, t) ==
    LET Do(K) ==
        LET c == K.conns[o]
        IN IF c.write_buffer_ = <<>>
             THEN [K |-> modifyEpoll(K, c.fd_, "in"), ok |-> TRUE]
           ELSE IF n > 0
             THEN LET sent == [Transmit(K, o, c.fd_, n) EXCEPT !.conns[o].last_activity_ = t]
                  IN [K |-> IF sent.conns[o].write_buffer_ = <<>>
                              THEN modifyEpoll(sent, c.fd_, "in") ELSE sent,
                      ok |-> TRUE]
           ELSE IF n = 0 THEN [K |-> K, ok |-> TRUE]
           ELSE [K |-> [K EXCEPT !.conns[o].active_ = FALSE], ok |-> FALSE]
    IN Apply(Do, Kx)

\* handleClientEvent lines 1010-1017: the EPOLLOUT part.
HandleWrite(Kx, client_fd, events, n, t) ==
    LET Do(K) ==
        IF "OUT" \notin events THEN K
        ELSE LET w == writeAvailable(K, K.clients[client_fd], n, t)
             IN IF w.ok THEN w.K ELSE closeClient(w.K, client_fd)
    IN Apply(Do, Kx)

WriteOutcomes(Kx, client_fd, events) ==
    LET Do(K) ==
        IF "OUT" \in events /\ K.clients[client_fd] # 0
             /\ K.conns[K.clients[client_fd]].write_buffer_ # <<>>
          THEN SendOutcomes(K, K.conns[K.clients[client_fd]].fd_,
                            Len(K.conns[K.clients[client_fd]].write_buffer_))
          ELSE {0}
    IN Apply(Do, Kx)

\* readAvailable with the size check left out.
OverflowsNever(read_buffer, bytes) == FALSE

\* readAvailable lines 80-81: the bytes recv returned do not fit.
Overflows(read_buffer, bytes) == Len(read_buffer) + Len(bytes) > MaxReadBuf

\* handleClientEvent for one event of the batch, up to the call of
\* processRequests: lookup, hang-up, readAvailable's recv and size check, and
\* (when nothing was read) the EPOLLOUT part.
ElClientEvent(e, n) ==
    /\ el_pc = "events"
    /\ e \in el_batch
    /\ e.fd # ListenFd
    /\ el_batch' = el_batch \ {e}
    /\ LET client == clients_[e.fd]
           c == conns[client]
           got == Peek(Cur, c.fd_)
           bytes == Substr(tcp[fd_table[c.fd_]].inq, 0, RecvBuf)
       IN IF client = 0
            THEN /\ EventHandled(removeFromEpoll(Cur, e.fd))
                 /\ n = 0
                 /\ el_pc' = "events"
                 /\ UNCHANGED <<el_fd, el_events, el_pos>>
          ELSE IF "HUP" \in e.ev
            THEN /\ EventHandled(closeClient(Cur, e.fd))
                 /\ n = 0
                 /\ el_pc' = "events"
                 /\ UNCHANGED <<el_fd, el_events, el_pos, throws>>
          ELSE IF "IN" \in e.ev /\ got = "data"
            THEN /\ n = 0
                 /\ IF Overflows(c.read_buffer_, bytes)
                      THEN /\ EventHandled(closeClient(
                                [Cur EXCEPT !.tcp[fd_table[c.fd_]].inq =
                                              SubSeq(@, Len(bytes) + 1, Len(@)),
                                            !.conns[client].active_ = FALSE], e.fd))
                           /\ el_pc' = "events"
                           /\ UNCHANGED <<el_fd, el_events, el_pos>>
                      ELSE /\ Commit([Cur EXCEPT
                                        !.tcp[fd_table[c.fd_]].inq =
                                            SubSeq(@, Len(bytes) + 1, Len(@)),
                                        !.conns[client].read_buffer_ = @ \o bytes,
                                        !.conns[client].last_activity_ = now])
                           /\ UNCHANGED last_health_check
                           /\ el_pc' = "frame"
                           /\ el_fd' = e.fd
                           /\ el_events' = e.ev
                           /\ el_pos' = 0
          ELSE IF "IN" \in e.ev /\ got \in {"eof", "error"}
            THEN /\ EventHandled(closeClient([Cur EXCEPT !.conns[client].active_ = FALSE], e.fd))
                 /\ n = 0
                 /\ el_pc' = "events"
                 /\ UNCHANGED <<el_fd, el_events, el_pos, throws>>
          ELSE /\ n \in WriteOutcomes(Cur, e.fd, e.ev)
               /\ EventHandled(HandleWrite(Cur, e.fd, e.ev, n, now))
               /\ el_pc' = "events"
               /\ UNCHANGED <<el_fd, el_events, el_pos, throws>>
    /\ UNCHANGED <<rh_vars, config_, aside_vars, now, backlog, c_sends, tasks_, enqueued, workers, throws>>

\* processRequests lines 295-393, one pass of the loop that cuts a request
\* out and hands it to ThreadPool::enqueue with the raw this pointer.
ElFrame ==
    /\ el_pc = "frame"
    /\ enqueued < MaxTasks
    /\ LET client == clients_[el_fd]
           framed == FrameOne(conns[client].read_buffer_, el_pos)
       IN /\ el_pos < Len(conns[client].read_buffer_)
          /\ framed.kind = "task"
          /\ tasks_' = Append(tasks_, [this |-> client,
                                       complete_request |-> framed.request,
                                       g |-> conns[client].gen, r |-> framed.r,
                                       cl |-> framed.cl])
          /\ el_pos' = framed.pos
    /\ enqueued' = enqueued + 1
    /\ UNCHANGED <<rh_vars, config_, aside_vars, heap_vars, metrics, now, backlog, c_sends, workers, el_pc, el_batch,
                   el_fd, el_events, last_health_check, throws>>

\* The loop of processRequests ends (lines 295, 302, 325, 336); lines 396-407
\* trim read_buffer_; readAvailable returns true and handleClientEvent goes on
\* to its EPOLLOUT part.
ElFrameEnd(n) ==
    /\ el_pc = "frame"
    /\ LET client == clients_[el_fd]
           read_buffer == conns[client].read_buffer_
           trimmed == [Cur EXCEPT !.conns[client].read_buffer_ =
                                     AfterFraming(read_buffer, el_pos)]
       IN /\ \/ el_pos >= Len(read_buffer)
             \/ FrameOne(read_buffer, el_pos).kind = "break"
          /\ n \in WriteOutcomes(trimmed, el_fd, el_events)
          /\ EventHandled(HandleWrite(trimmed, el_fd, el_events, n, now))
    /\ el_pc' = "events"
    /\ el_fd' = 0
    /\ el_events' = {}
    /\ el_pos' = 0
    /\ UNCHANGED <<rh_vars, config_, aside_vars, now, backlog, c_sends, tasks_, enqueued, workers, el_batch, throws>>

\* runServer line 921: the batch is done, cleanupInactiveClients, next turn.
ElBatchDone ==
    /\ el_pc = "events"
    /\ el_batch = {}
    /\ Commit(cleanupInactiveClients(Cur, now))
    /\ el_pc' = "wait"
    /\ UNCHANGED <<rh_vars, config_, aside_vars, now, backlog, c_sends, tasks_, enqueued, workers, el_batch,
                   el_fd, el_events, el_pos, last_health_check, throws>>

\* MultiplexingServer::cleanup, lines 1127-1137: every map entry is removed
\* from epoll and the map cleared, then the pool is destroyed; an object
\* whose last reference goes away closes its descriptor in its destructor.
\* No call of Metrics::decrementConnections is made.
RECURSIVE cleanupClients(_, _)
cleanupClients(K, fd) ==
    IF fd > NFd THEN K
    ELSE IF K.clients[fd] = 0 THEN cleanupClients(K, fd + 1)
    ELSE cleanupClients(
           [Destroy(removeFromEpoll(K, fd), K.clients[fd]) EXCEPT !.clients[fd] = 0],
           fd + 1)

RECURSIVE destroyPool(_)
destroyPool(K) ==
    IF K.pool = <<>> THEN K
    ELSE destroyPool([Destroy(K, Head(K.pool)) EXCEPT !.pool = Tail(K.pool)])

cleanup(K) == destroyPool(cleanupClients(K, 1))

\* stop(): shutdown_requested_ is set, the runServer thread leaves its loop
\* at the next test of the flag and is joined, then cleanup() runs.
Shutdown ==
    /\ el_pc = "wait"
    /\ el_pc' = "stopped"
    /\ Commit(cleanup(Cur))
    /\ UNCHANGED <<rh_vars, config_, aside_vars, now, backlog, c_sends, tasks_, enqueued, workers, el_batch,
                   el_fd, el_events, el_pos, last_health_check, throws>>

\* ---- the ThreadPool's worker threads --------------------------------------
\* RequestHandler::processRequest as one step: the tallies after the call.
processRequest(json_input) ==
    LET parsed == ParseJson(json_input)
        ok == parsed.err = "" /\ validateUserData(parsed.data)
    IN [total |-> IF ok THEN total_numbers_sum_ + parsed.data.number
                  ELSE total_numbers_sum_,
        client |-> IF ok THEN MapPut(client_numbers_sum_, ClientId(parsed.data.id),
                                     MapGet(client_numbers_sum_, ClientId(parsed.data.id))
                                     + parsed.data.number)
                   ELSE client_numbers_sum_,
        succ |-> IF ok THEN successful_requests_ + 1 ELSE successful_requests_,
        failed |-> IF ok THEN failed_requests_ ELSE failed_requests_ + 1]

\* The length of the JSON text RequestHandler::processRequest returns, in
\* abstract bytes.
JsonLen == 1

\* handleHttpRequest counting every request it routes, GET /metrics included.
handlerMetricsEveryRoute(M, method, path, body) ==
    [M EXCEPT !.requests_total_ = @ + 1, !.bytes_received_ = @ + Len(body)]

\* What handleHttpRequest records in Metrics (lines 629-671): only the
\* POST /process branch touches the registry.  processRequest catches its
\* own exceptions, so its return is counted as a success whatever it holds.
handlerMetrics(M, method, path, body) ==
    IF method = "POST" /\ path = "/process"
      THEN LET counted == [M EXCEPT !.requests_total_ = @ + 1,
                                    !.bytes_received_ = @ + Len(body)]
           IN IF body = <<>>
                THEN [counted EXCEPT !.requests_failed_ = @ + 1]
                ELSE [counted EXCEPT !.requests_successful_ = @ + 1,
                                     !.bytes_sent_ = @ + JsonLen,
                                     !.request_duration_count_ = @ + 1]
    ELSE M

\* The counter metrics Metrics::getPrometheusMetrics prints (the gauges left
\* out).
Counters(M) == [c \in DOMAIN M \ {"active_connections_"} |-> M[c]]

\* The body handleHttpRequest renders: the counters for GET /metrics.
renderContent(M, method, path) ==
    IF method = "GET" /\ path = "/metrics" THEN <<Counters(M)>> ELSE <<>>

\* A worker pops the front task and runs the lambda of lines 349-370 up to
\* its call of sendResponse.  threw: a std::exception escapes the try block
\* before the handler has run.
WorkerRun(w, threw) ==
    /\ workers[w].pc = "wait"
    /\ threw => throws < MaxThrows
    /\ throws' = IF threw THEN throws + 1 ELSE throws
    /\ tasks_ # <<>>
    /\ tasks_' = Tail(tasks_)
    /\ LET task == Head(tasks_)
           req == parseHttpRequestOptimized(task.complete_request)
           handled == handleHttpRequest(req.method, req.path, req.body)
           answer == IF threw THEN Thrown ELSE IF ~req.ok THEN NotParsed ELSE handled
           status == answer.status
           after == processRequest(BodyJson(req.body))
       IN /\ workers' = [workers EXCEPT ![w] =
                           [pc |-> "send", task |-> task,
                            response |-> createHttpResponse(task.g, task.r, status),
                            handled |-> answer,
                            content |-> IF ~threw /\ req.ok
                                          THEN renderContent(metrics, req.method, req.path)
                                          ELSE <<>>]]
          /\ metrics' = IF ~threw /\ req.ok
                          THEN handlerMetrics(metrics, req.method, req.path, req.body)
                          ELSE metrics
          /\ IF ~threw /\ req.ok /\ handled.process
               THEN /\ requests_processed_' = requests_processed_ + 1
                    /\ total_numbers_sum_' = after.total
                    /\ client_numbers_sum_' = after.client
                    /\ successful_requests_' = after.succ
                    /\ failed_requests_' = after.failed
               ELSE UNCHANGED <<requests_processed_, total_numbers_sum_,
                                client_numbers_sum_, successful_requests_,
                                failed_requests_>>
    /\ UNCHANGED <<client_mutex_, rh_pc, rh_input, rh_user_data, rh_original, rh_loaded,
                   rh_result, rh_eff, rh_expect, rh_budget, rh_overlap>>
    /\ UNCHANGED <<heap_vars, config_, aside_vars, now, backlog, c_sends, enqueued, el_pc, el_batch, el_fd,
                   el_events, el_pos, last_health_check>>

\* sendResponse with the buffer assigned instead of appended to.
sendResponseOverwrites(Kx, o, response, n) ==
    LET Do(K) ==
        LET was_empty == K.conns[o].write_buffer_ = <<>>
            fd == K.conns[o].fd_
            appended == [K EXCEPT !.conns[o].write_buffer_ = response]
            queued == IF IsOpen(K, fd)
                        THEN [appended EXCEPT !.tcp[K.fds[fd]].app = @ \o response]
                        ELSE appended
            armed == IF was_empty /\ config_.enable_epollout_optimization
                       THEN modifyEpoll(queued, fd, "inout") ELSE queued
        IN IF n > 0
             THEN LET sent == Transmit(armed, o, fd, n)
                  IN IF sent.conns[o].write_buffer_ = <<>> /\ config_.enable_epollout_optimization
                       THEN modifyEpoll(sent, fd, "in") ELSE sent
           ELSE IF n = 0 THEN armed
           ELSE [armed EXCEPT !.conns[o].active_ = FALSE]
    IN Apply(Do, Kx)

\* ClientConnection::sendResponse on the object the task captured, with
\* send's outcome n: append under write_mutex_, enable write notifications
\* if the buffer was empty, try to send at once.
sendResponse(Kx, o, response, n) ==
    LET Do(K) ==
        LET was_empty == K.conns[o].write_buffer_ = <<>>
            fd == K.conns[o].fd_
            appended == [K EXCEPT !.conns[o].write_buffer_ = @ \o response]
            queued == IF IsOpen(K, fd)
                        THEN [appended EXCEPT !.tcp[K.fds[fd]].app = @ \o response]
                        ELSE appended
            armed == IF was_empty /\ config_.enable_epollout_optimization
                       THEN modifyEpoll(queued, fd, "inout") ELSE queued
        IN IF n > 0
             THEN LET sent == Transmit(armed, o, fd, n)
                  IN IF sent.conns[o].write_buffer_ = <<>> /\ config_.enable_epollout_optimization
                       THEN modifyEpoll(sent, fd, "in") ELSE sent
           ELSE IF n = 0 THEN armed
           ELSE [armed EXCEPT !.conns[o].active_ = FALSE]
    IN Apply(Do, Kx)

\* The worker's call of sendResponse (lines 356, 362, 369).  A task whose
\* object has been destroyed writes through a dangling pointer; no effect of
\* that write is modelled.
WorkerSend(w, n) ==
    /\ workers[w].pc = "send"
    /\ LET o == workers[w].task.this
           response == workers[w].response
       IN IF conns[o].alive
            THEN /\ n \in SendOutcomes(Cur, conns[o].fd_,
                                       Len(conns[o].write_buffer_) + Len(response))
                 /\ Commit(sendResponse(Cur, o, response, n))
            ELSE /\ n = 0
                 /\ UNCHANGED <<heap_vars, metrics>>
    /\ workers' = [workers EXCEPT ![w] = IdleWorker]
    /\ UNCHANGED <<rh_vars, config_, aside_vars, now, backlog, c_sends, tasks_, enqueued, el_pc, el_batch,
                   el_fd, el_events, el_pos, last_health_check, throws>>

\* handleNewConnection reusing the pooled object o while worker w, whose task
\* captured o, is inside sendResponse.  ClientConnection::reset stores
\* fd_ = fd without holding write_mutex_ (line 50) and clears write_buffer_
\* under it (lines 53-56); the worker holds write_mutex_ from its append to
\* the end of its send (lines 190-246) and reads fd_ for send().  In this
\* interleaving the worker's send sees the new fd_, and reset's clear()
\* follows the worker's unlock.
ElAcceptDuringSend(o, w, n) ==
    /\ el_pc = "accept"
    /\ backlog # <<>>
    /\ FreeFds # {}
    /\ pool_ # <<>>
    /\ o = acquireFrom(pool_, o).conn
    /\ workers[w].pc = "send"
    /\ workers[w].task.this = o
    /\ LET g == Head(backlog)
           client_fd == FreeFd
           accepted == [Cur EXCEPT !.fds[client_fd] = g,
                                   !.tcp[g].state = "open",
                                   !.pool = acquireFrom(pool_, o).pool]
           \* what write_buffer_ still holds counts as appended to it
           assigned == [accepted EXCEPT !.conns[o].fd_ = client_fd,
                                        !.tcp[g].app = conns[o].write_buffer_]
           response == workers[w].response
       IN /\ n \in SendOutcomes(assigned, client_fd,
                                 Len(conns[o].write_buffer_) + Len(response))
          /\ LET sent == sendResponse(assigned, o, response, n)
                 cleared == reset(sent, o, client_fd, g, now)
                 added == addToEpoll([cleared EXCEPT !.clients[client_fd] = o], client_fd)
             IN Commit([added EXCEPT !.metrics = incrementConnections(@)])
    /\ backlog' = Tail(backlog)
    /\ workers' = [workers EXCEPT ![w] = IdleWorker]
    /\ UNCHANGED <<rh_vars, config_, aside_vars, now, c_sends, tasks_, enqueued, el_pc, el_batch,
                   el_fd, el_events, el_pos, last_health_check, throws>>

\* The steps of the runServer thread and of the worker threads.
ServerStep ==
    \/ \E writable \in SUBSET FDs : EpollWait(writable)
    \/ ElDispatchListener
    \/ \E o \in Objs : ElAccept(o)
    \/ ElAcceptDone
    \/ \E e \in el_batch : \E n \in -1..(MaxTasks * RespLen) : ElClientEvent(e, n)
    \/ ElFrame
    \/ \E n \in -1..(MaxTasks * RespLen) : ElFrameEnd(n)
    \/ ElBatchDone
    \/ \E w \in Workers : \E threw \in BOOLEAN : WorkerRun(w, threw)
    \/ \E w \in Workers : \E n \in -1..(MaxTasks * RespLen) : WorkerSend(w, n)

\* Request traffic: clients on TrafficConns connections send any of Messages
\* and may close, all within one tick of the clock.
Next ==
    \/ \E g \in 1..TrafficConns : ClientConnect(g)
    \/ \E g \in 1..TrafficConns : \E msg \in Messages(tcp[g].next_r) : ClientSend(g, msg)
    \/ \E g \in 1..TrafficConns : ClientClose(g)
    \/ ServerStep

Spec == Init /\ [][Next]_vars

\* Request traffic with readiness reported spuriously now and then.
NextSpurious ==
    \/ Next
    \/ \E f \in FDs : EpollWaitSpuriousIn(f)

SpecSpurious == Init /\ [][NextSpurious]_vars

\* Malformed requests: clients on TrafficConns connections send well-formed
\* requests and requests with each kind of framing error.
FramingMessages(r) == { GetHealth(r), BadContentLength(r), NoColonHeader(r), OneSpace }

NextFraming ==
    \/ \E g \in 1..TrafficConns : ClientConnect(g)
    \/ \E g \in 1..TrafficConns : \E msg \in FramingMessages(tcp[g].next_r) :
          ClientSend(g, msg)
    \/ \E g \in 1..TrafficConns : ClientClose(g)
    \/ ServerStep

SpecFraming == Init /\ [][NextFraming]_vars

\* Every route of handleHttpRequest: clients on TrafficConns connections send
\* a GET for each routed path and for an unknown one, and POST /process with
\* a valid body, with bodies that fail JSON parsing or field validation, and
\* with no body.
RoutedPaths == {"/health", "/metrics", "/numbers/sum", "/numbers/sum/user_0",
                "/numbers/sum-all", "/"}

RejectedBodies ==
    { JNonDoc("malformed"),
      JObject(JMissing, JStr("a"), JStr("p"), JInt(1)),
      JObject(JInt(0), JStr(""), JStr("p"), JInt(1)) }

RouteMessages(r) ==
    { Get(path, r) : path \in RoutedPaths \cup {"/nope"} }
    \cup { PostProcess(r, j) :
             j \in {JObject(JInt(0), JStr("a"), JStr("p"), JInt(1))} \cup RejectedBodies }
    \cup { PostHead(r, "dec", 0) }

NextRoutes ==
    \/ \E g \in 1..TrafficConns : ClientConnect(g)
    \/ \E g \in 1..TrafficConns : \E msg \in RouteMessages(tcp[g].next_r) :
          ClientSend(g, msg)
    \/ \E g \in 1..TrafficConns : ClientClose(g)
    \/ ServerStep

SpecRoutes == Init /\ [][NextRoutes]_vars

\* The dispatch table: clients on TrafficConns connections send requests
\* with the routed (method, path) pairs, with paths under the /numbers/sum/
\* prefix, with near misses of the routed paths and with other methods.
Request(m, path, r) == <<RequestLine(m, path, r), CR, LF, CR, LF>>

DispatchMessages(r) ==
    { Request("GET", path, r) :
        path \in RoutedPaths \cup {SumPrefix, SumPrefix \o "user_10", "/numbers/sum-all/",
                                  "/numbers/summary", "/health/", "/process", ""} }
    \cup { Request(m, path, r) : m \in {"POST", "PUT", "get"}, path \in {"/health", "/"} }
    \cup { Request("PUT", "/process", r), PostHead(r, "dec", 0),
           Request("POST", "/process-async", r),
           PostProcess(r, JObject(JInt(0), JStr("a"), JStr("p"), JInt(1))),
           PostProcess(r, JNonDoc("malformed")) }

NextDispatch ==
    \/ \E g \in 1..TrafficConns : ClientConnect(g)
    \/ \E g \in 1..TrafficConns : \E msg \in DispatchMessages(tcp[g].next_r) :
          c_sends < DispatchSends /\ ClientSend(g, msg)
    \/ \E g \in 1..TrafficConns : ClientClose(g)
    \/ ServerStep

SpecDispatch == Init /\ [][NextDispatch]_vars

\* Pipelining: a client writes up to MaxPipeline well-formed requests back to
\* back in one send(); kinds says which are GET /health and which are
\* POST /process, and the requests are numbered from r on.
RECURSIVE Pipelined(_, _)
Pipelined(r, kinds) ==
    IF kinds = <<>> THEN <<>>
    ELSE (IF Head(kinds) = "get" THEN GetHealth(r)
          ELSE PostProcess(r, JObject(JInt(1), JStr("a"), JStr("p"), JInt(1))))
         \o Pipelined(r + 1, Tail(kinds))

PipelineKinds == UNION { [1..k -> {"get", "post"}] : k \in 1..MaxPipeline }

ClientSendPipelined(g, kinds) ==
    /\ tcp[g].state \in {"backlog", "open"}
    /\ ~tcp[g].fin
    /\ c_sends < PipelineSends
    /\ c_sends' = c_sends + 1
    /\ tcp' = [tcp EXCEPT ![g].inq = @ \o Pipelined(tcp[g].next_r, kinds),
                          ![g].next_r = @ + Len(kinds)]
    /\ UNCHANGED <<rh_vars, config_, aside_vars, now, backlog, fd_table, epoll_reg, clients_, pool_,
                   conns, metrics, tasks_, enqueued, workers, el_pc, el_batch, el_fd, el_events,
                   el_pos, last_health_check, throws>>

NextPipeline ==
    \/ \E g \in 1..TrafficConns : ClientConnect(g)
    \/ \E g \in 1..TrafficConns : \E kinds \in PipelineKinds : ClientSendPipelined(g, kinds)
    \/ \E g \in 1..TrafficConns : ClientClose(g)
    \/ ServerStep

SpecPipeline == Init /\ [][NextPipeline]_vars

\* Idle connections: clients on any of the connections poll the health
\* endpoint or stay silent while the clock advances.
NextIdle ==
    \/ Tick
    \/ \E g \in Gens : ClientConnect(g)
    \/ \E g \in Gens : \E msg \in IdleMessages(tcp[g].next_r) :
          c_sends < IdleSends /\ ClientSend(g, msg)
    \/ \E g \in Gens : ClientClose(g)
    \/ ServerStep

SpecIdle == Init /\ [][NextIdle]_vars

\* Idle connections and a server that may be stopped at any turn of its loop.
NextShutdown == NextIdle \/ Shutdown

SpecShutdown == Init /\ [][NextShutdown]_vars

\* Idle connections and a kernel that may refuse to register a descriptor
\* with epoll.
NextFaults == NextIdle \/ (\E o \in Objs : ElAcceptFails(o))

SpecFaults == Init /\ [][NextFaults]_vars

\* Connection objects reused through the pool: clients on any of the
\* connections poll the health endpoint and close, and a new connection may
\* be accepted on a pooled object while a worker is sending on it.
NextReuse ==
    \/ \E g \in Gens : ClientConnect(g)
    \/ \E g \in Gens : \E msg \in IdleMessages(tcp[g].next_r) :
          c_sends < ReuseSends /\ ClientSend(g, msg)
    \/ \E g \in Gens : ClientClose(g)
    \/ ServerStep
    \/ \E o \in Objs : \E w \in Workers : \E n \in -1..(MaxTasks * RespLen) :
          ElAcceptDuringSend(o, w, n)

SpecReuse == Init /\ [][NextReuse]_vars

\* The runServer thread is never blocked for longer than epoll_wait's timeout
\* of one second, so the step it is at, when it stays possible, is taken.
ElHandleEvent == \E e \in el_batch : \E n \in -1..(MaxTasks * RespLen) : ElClientEvent(e, n)

FairIdle ==
    /\ SpecIdle
    /\ WF_vars(\E writable \in SUBSET FDs : EpollWait(writable))
    /\ WF_vars(ElDispatchListener)
    /\ WF_vars(\E o \in Objs : ElAccept(o))
    /\ WF_vars(ElAcceptDone)
    /\ WF_vars(ElHandleEvent)
    /\ WF_vars(ElFrame)
    /\ WF_vars(\E n \in -1..(MaxTasks * RespLen) : ElFrameEnd(n))
    /\ WF_vars(ElBatchDone)

\* Draining the write buffer under either configuration: clients on
\* TrafficConns connections poll the health endpoint and may close, the server
\* runs with enable_epollout_optimization set or cleared.
NextDrain ==
    \/ \E g \in 1..TrafficConns : ClientConnect(g)
    \/ \E g \in 1..TrafficConns : \E msg \in IdleMessages(tcp[g].next_r) :
          c_sends < DrainSends /\ ClientSend(g, msg)
    \/ \E g \in 1..TrafficConns : ClientClose(g)
    \/ ServerStep

SpecDrain == InitAnyConfig /\ [][NextDrain]_vars

\* epoll_wait when every socket registered for EPOLLOUT accepts data.
EpollWaitAllWritable == EpollWait({ f \in FDs : epoll_reg[f] = "inout" })

\* A send() on an EPOLLOUT event of which the kernel takes at least one byte.
ElSendProgress ==
    \/ \E e \in el_batch : \E n \in 1..(MaxTasks * RespLen) : ElClientEvent(e, n)
    \/ \E n \in 1..(MaxTasks * RespLen) : ElFrameEnd(n)

\* The runServer thread and the worker threads keep running (the loop never
\* blocks longer than epoll_wait's timeout, a worker woken by notify_one runs
\* its task), and the peer keeps accepting data: its socket is reported
\* writable and send() takes bytes again and again.
FairDrain ==
    /\ SpecDrain
    /\ WF_vars(\E writable \in SUBSET FDs : EpollWait(writable))
    /\ WF_vars(ElDispatchListener)
    /\ WF_vars(\E o \in Objs : ElAccept(o))
    /\ WF_vars(ElAcceptDone)
    /\ WF_vars(ElHandleEvent)
    /\ WF_vars(ElFrame)
    /\ WF_vars(\E n \in -1..(MaxTasks * RespLen) : ElFrameEnd(n))
    /\ WF_vars(ElBatchDone)
    /\ WF_vars(\E w \in Workers : \E threw \in BOOLEAN : WorkerRun(w, threw))
    /\ WF_vars(\E w \in Workers : \E n \in -1..(MaxTasks * RespLen) : WorkerSend(w, n))
    /\ SF_vars(EpollWaitAllWritable)
    /\ SF_vars(ElSendProgress)

\* The same, for the default configuration only.
FairDrainDefault == FairDrain /\ config_.enable_epollout_optimization

\* A process short of descriptors: clients on any of the connections poll the
\* health endpoint and may close, accept4 fails with EMFILE while a connection
\* is pending and the limit is reached.
NextAccept ==
    \/ \E g \in Gens : ClientConnect(g)
    \/ \E g \in Gens : \E msg \in IdleMessages(tcp[g].next_r) :
          c_sends < IdleSends /\ ClientSend(g, msg)
    \/ \E g \in Gens : ClientClose(g)
    \/ ServerStep
    \/ ElAcceptError
    \/ ElAcceptRetry

SpecAccept == InitFewDescriptors /\ [][NextAccept]_vars

\* The runServer thread keeps running.
FairAccept ==
    /\ SpecAccept
    /\ WF_vars(\E writable \in SUBSET FDs : EpollWait(writable))
    /\ WF_vars(ElDispatchListener)
    /\ WF_vars(\E o \in Objs : ElAccept(o))
    /\ WF_vars(ElAcceptError)
    /\ WF_vars(ElAcceptRetry)
    /\ WF_vars(ElAcceptDone)
    /\ WF_vars(ElHandleEvent)
    /\ WF_vars(ElFrame)
    /\ WF_vars(\E n \in -1..(MaxTasks * RespLen) : ElFrameEnd(n))
    /\ WF_vars(ElBatchDone)

\* ---- the mutexes -----------------------------------------------------------
Lock(m) == [op |-> "lock", m |-> m]
Unlock(m) == [op |-> "unlock", m |-> m]
Guarded(m) == <<Lock(m), Unlock(m)>>

\* ConnectionPool::acquire with reset called after pool_mutex_ is released
\* and the object registered under its own write_mutex_.
acquireLocksInside(o) ==
    IF o = 0 THEN Guarded("pool_mutex_")
    ELSE <<Lock(write_mutex_(o))>> \o Guarded("clients_mutex_") \o Guarded("pool_mutex_")
           \o <<Unlock(write_mutex_(o))>>

\* ConnectionPool::acquire: pool_mutex_, and write_mutex_ inside reset when
\* a pooled object o is reused (o = 0: a new object is made).
acquireLocks(o) ==
    IF o = 0 THEN Guarded("pool_mutex_")
    ELSE <<Lock("pool_mutex_")>> \o Guarded(write_mutex_(o)) \o <<Unlock("pool_mutex_")>>

\* handleNewConnection: acquire, then the insert under clients_mutex_.
handleNewConnectionLocks(o) == acquireLocks(o) \o Guarded("clients_mutex_")

\* ClientConnection::close: Metrics::updateConnectionDuration.
closeLocks == Guarded("connection_mutex_")

\* closeClient: erase under clients_mutex_, close(), release.
closeClientLocks == Guarded("clients_mutex_") \o closeLocks \o Guarded("pool_mutex_")

\* handleClientEvent: lookup under clients_mutex_, then readAvailable
\* (a request goes to ThreadPool::enqueue) and writeAvailable on object o.
handleClientEventLocks(o, read, write) ==
    Guarded("clients_mutex_")
    \o (IF read THEN Guarded("queue_mutex_") ELSE <<>>)
    \o (IF write THEN Guarded(write_mutex_(o)) ELSE <<>>)

\* cleanupInactiveClients: the whole scan under clients_mutex_, release
\* inside it; when release drops the object, erase runs ~ClientConnection
\* and with it close().
cleanupInactiveClientsLocks(dropped) ==
    <<Lock("clients_mutex_")>> \o Guarded("pool_mutex_")
    \o (IF dropped THEN closeLocks ELSE <<>>)
    \o <<Unlock("clients_mutex_")>>

\* checkConnectionHealth: the probe under clients_mutex_; closeClient follows.
checkConnectionHealthLocks == Guarded("clients_mutex_") \o closeClientLocks

\* cleanup: clients_.clear() under clients_mutex_ destroys the connections,
\* connection_pool_.reset() the pooled ones.
cleanupLocks ==
    <<Lock("clients_mutex_")>> \o closeLocks \o <<Unlock("clients_mutex_")>> \o closeLocks

\* The worker loop taking a task.
popLocks == Guarded("queue_mutex_")

\* A task on object o: handleHttpRequest (incrementRequests and /metrics
\* take rps_mutex_, processRequest takes client_mutex_, then the duration and
\* its histogram), and sendResponse.
taskLocks(o, process) ==
    Guarded("rps_mutex_")
    \o (IF process
          THEN Guarded("client_mutex_") \o Guarded("duration_mutex_")
               \o Guarded("histogram_mutex_")
          ELSE <<>>)
    \o Guarded(write_mutex_(o))

\* Metrics::reset: four lock_guards in one scope.
resetLocks ==
    <<Lock("duration_mutex_"), Lock("histogram_mutex_"), Lock("rps_mutex_"),
      Lock("connection_mutex_"), Unlock("connection_mutex_"), Unlock("rps_mutex_"),
      Unlock("histogram_mutex_"), Unlock("duration_mutex_")>>

\* What each thread may call next.
Calls(t) ==
    IF t = LoopThread
      THEN { handleNewConnectionLocks(o) : o \in 0..LockObjects }
           \cup { handleClientEventLocks(o, r, w) :
                     o \in 1..LockObjects, r \in BOOLEAN, w \in BOOLEAN }
           \cup { cleanupInactiveClientsLocks(d) : d \in BOOLEAN }
           \cup { closeClientLocks, checkConnectionHealthLocks }
    ELSE IF t \in WorkerThreads
      THEN { popLocks }
           \cup { taskLocks(o, p) : o \in 1..LockObjects, p \in BOOLEAN }
    ELSE { resetLocks, cleanupLocks }

\* Thread t enters one of its functions.
LkCall(t, calls) ==
    /\ locking.script[t] = <<>>
    /\ calls \in Calls(t)
    /\ locking' = [locking EXCEPT !.script[t] = calls]

\* std::lock_guard constructor: mutex::lock returns once the mutex is free.
LkLock(t) ==
    /\ locking.script[t] # <<>>
    /\ Head(locking.script[t]).op = "lock"
    /\ locking.owner[Head(locking.script[t]).m] = 0
    /\ locking' = [locking EXCEPT !.owner[Head(locking.script[t]).m] = t,
                                  !.script[t] = Tail(@)]

\* std::lock_guard destructor.
LkUnlock(t) ==
    /\ locking.script[t] # <<>>
    /\ Head(locking.script[t]).op = "unlock"
    /\ locking' = [locking EXCEPT !.owner[Head(locking.script[t]).m] = 0,
                                  !.script[t] = Tail(@)]

NextLocks ==
    /\ \/ \E t \in LockThreads : \E calls \in Calls(t) : LkCall(t, calls)
       \/ \E t \in LockThreads : LkLock(t)
       \/ \E t \in LockThreads : LkUnlock(t)
    /\ UNCHANGED <<rh_vars, server_vars, rlimit_nofile, thread_pool_, connection_pool_,
                   buffer_gauge>>

SpecLocks == Init /\ [][NextLocks]_vars

\* A thread that is not blocked goes on, and a mutex that is free again and
\* again is eventually given to a thread that waits for it.
FairLocks ==
    /\ SpecLocks
    /\ \A t \in LockThreads :
          /\ WF_vars(LkUnlock(t) /\ UNCHANGED <<rh_vars, server_vars, rlimit_nofile,
                                                thread_pool_, connection_pool_, buffer_gauge>>)
          /\ SF_vars(LkLock(t) /\ UNCHANGED <<rh_vars, server_vars, rlimit_nofile,
                                              thread_pool_, connection_pool_, buffer_gauge>>)

\* ---- Metrics::updateWriteBufferSize, statement by statement ----------------
Max(a, b) == IF a >= b THEN a ELSE b

\* Metrics.h line 83, right-hand side: max_write_buffer_size_.load() and
\* std::max with size, in thread t.
GaugeLoad(G, t, size) ==
    [G EXCEPT !.pc[t] = "store",
              !.size[t] = size,
              !.value[t] = Max(G.max_write_buffer_size_, size),
              !.calls = @ + 1]

\* Thread t enters updateWriteBufferSize(size): sendResponse line 209 in a
\* worker, under the write_mutex_ of its own connection only.
ObserveLoad(t, size) ==
    /\ buffer_gauge.pc[t] = "idle"
    /\ buffer_gauge.calls < GaugeCalls
    /\ buffer_gauge' = GaugeLoad(buffer_gauge, t, size)

\* Metrics.h line 83, the assignment: the atomic store of the value computed.
ObserveStore(t) ==
    /\ buffer_gauge.pc[t] = "store"
    /\ buffer_gauge' = [buffer_gauge EXCEPT !.pc[t] = "idle",
                                            !.max_write_buffer_size_ = buffer_gauge.value[t],
                                            !.observed = @ \cup {buffer_gauge.size[t]}]

NextGauge ==
    /\ \/ \E t \in Observers : \E size \in 1..MaxObserved : ObserveLoad(t, size)
       \/ \E t \in Observers : ObserveStore(t)
    /\ UNCHANGED <<rh_vars, server_vars, rlimit_nofile, thread_pool_, connection_pool_, locking>>

SpecGauge == Init /\ [][NextGauge]_vars

\* ---- the ConnectionPool alone ----------------------------------------------
\* The objects that exist: pooled, or held by a caller.
PoolMade == connection_pool_.held
            \cup { connection_pool_.pool_[i] : i \in 1..Len(connection_pool_.pool_) }

\* handleNewConnection line 958: acquire hands out an object.
CpAcquire ==
    /\ \E c \in 1..PoolObjects : c \notin PoolMade
    /\ LET fresh == CHOOSE c \in 1..PoolObjects :
                        c \notin PoolMade /\ \A d \in 1..PoolObjects \ PoolMade : c <= d
           a == acquireFrom(connection_pool_.pool_, fresh)
       IN connection_pool_' = [pool_ |-> a.pool,
                               held |-> connection_pool_.held \cup {a.conn}]

\* closeClient and cleanupInactiveClients: release gives an object back.
CpRelease(c) ==
    /\ c \in connection_pool_.held
    /\ connection_pool_' =
         [pool_ |-> releaseInto(connection_pool_.pool_, c, PoolAloneCap),
          held |-> connection_pool_.held \ {c}]

NextPool ==
    /\ \/ CpAcquire
       \/ \E c \in 1..PoolObjects : CpRelease(c)
    /\ UNCHANGED <<rh_vars, server_vars, rlimit_nofile, thread_pool_, buffer_gauge, locking>>

SpecPool == Init /\ [][NextPool]_vars

\* ---- the ThreadPool, statement by statement --------------------------------
\* ThreadPool::enqueue, the block under queue_mutex_: emplace the task.
TpEnqueue ==
    /\ thread_pool_.owner = "run"
    /\ thread_pool_.next <= TPTasks
    /\ thread_pool_.queue_mutex_ = 0
    /\ thread_pool_' = [thread_pool_ EXCEPT !.tasks_ = Append(@, thread_pool_.next),
                                            !.next = @ + 1,
                                            !.owner = "notify_one"]

\* condition_.notify_one(): one of the threads blocked in wait, if any, is
\* made runnable and has to lock queue_mutex_ again.
TpNotifyOne(w) ==
    /\ thread_pool_.owner = "notify_one"
    /\ IF \E v \in TPWorkers : thread_pool_.pc[v] = "waiting"
         THEN /\ thread_pool_.pc[w] = "waiting"
              /\ thread_pool_' = [thread_pool_ EXCEPT !.pc[w] = "lock", !.owner = "run"]
         ELSE /\ w = 1
              /\ thread_pool_' = [thread_pool_ EXCEPT !.owner = "run"]

\* ~ThreadPool line 703: stop_ = true, without queue_mutex_.
TpStop ==
    /\ thread_pool_.owner = "run"
    /\ thread_pool_' = [thread_pool_ EXCEPT !.stop_ = TRUE,
                                            !.owner = "notify_all"]

\* ~ThreadPool line 704: condition_.notify_all() wakes the threads that are
\* blocked in wait at this moment.
TpNotifyAll ==
    /\ thread_pool_.owner = "notify_all"
    /\ thread_pool_' =
         [thread_pool_ EXCEPT !.pc = [w \in TPWorkers |->
                                        IF @[w] = "waiting" THEN "lock" ELSE @[w]],
                             !.owner = "join"]

\* ~ThreadPool lines 705-711: join returns for every thread once it has
\* returned from its loop.
TpJoin ==
    /\ thread_pool_.owner = "join"
    /\ \A w \in TPWorkers : thread_pool_.pc[w] = "exited"
    /\ thread_pool_' = [thread_pool_ EXCEPT !.owner = "done"]

\* Worker loop line 686, and the end of a wait: lock queue_mutex_.
TpLock(w) ==
    /\ thread_pool_.pc[w] = "lock"
    /\ thread_pool_.queue_mutex_ = 0
    /\ thread_pool_' = [thread_pool_ EXCEPT !.queue_mutex_ = w, !.pc[w] = "check"]

\* condition_.wait(lock, pred), lines 687-689: the predicate
\* stop_ || !tasks_.empty(), evaluated with queue_mutex_ held.
TpCheck(w) ==
    /\ thread_pool_.pc[w] = "check"
    /\ thread_pool_' =
         [thread_pool_ EXCEPT !.pc[w] = IF thread_pool_.stop_ \/ thread_pool_.tasks_ # <<>>
                                         THEN "decide" ELSE "block"]

\* condition_.wait(lock) after a false predicate: queue_mutex_ is released
\* and the thread blocks until it is notified.
TpBlock(w) ==
    /\ thread_pool_.pc[w] = "block"
    /\ thread_pool_' = [thread_pool_ EXCEPT !.queue_mutex_ = 0, !.pc[w] = "waiting"]

\* A spurious wake-up, which condition_variable::wait permits.
TpSpuriousWake(w) ==
    /\ thread_pool_.pc[w] = "waiting"
    /\ thread_pool_.owner # "done"
    /\ thread_pool_' = [thread_pool_ EXCEPT !.pc[w] = "lock"]

\* The worker loop returning as soon as it sees stop_.
TpDecideStopFirst(w) ==
    /\ thread_pool_.pc[w] = "decide"
    /\ thread_pool_' =
         IF thread_pool_.stop_
           THEN [thread_pool_ EXCEPT !.queue_mutex_ = 0, !.pc[w] = "exited"]
           ELSE [thread_pool_ EXCEPT !.queue_mutex_ = 0,
                                     !.task[w] = Head(thread_pool_.tasks_),
                                     !.tasks_ = Tail(@),
                                     !.popped = Append(@, Head(thread_pool_.tasks_)),
                                     !.pc[w] = "run"]

\* Worker loop lines 691-695: return when stop_ && tasks_.empty(), else pop
\* the front task; the lock goes out of scope.
TpDecide(w) ==
    /\ thread_pool_.pc[w] = "decide"
    /\ thread_pool_' =
         IF thread_pool_.stop_ /\ thread_pool_.tasks_ = <<>>
           THEN [thread_pool_ EXCEPT !.queue_mutex_ = 0, !.pc[w] = "exited"]
           ELSE [thread_pool_ EXCEPT !.queue_mutex_ = 0,
                                     !.task[w] = Head(thread_pool_.tasks_),
                                     !.tasks_ = Tail(@),
                                     !.popped = Append(@, Head(thread_pool_.tasks_)),
                                     !.pc[w] = "run"]

\* Worker loop line 697: task().
TpRun(w) ==
    /\ thread_pool_.pc[w] = "run"
    /\ thread_pool_' = [thread_pool_ EXCEPT !.ran = Append(@, thread_pool_.task[w]),
                                            !.task[w] = 0,
                                            !.pc[w] = "lock"]

TpWorker(w) ==
    TpLock(w) \/ TpCheck(w) \/ TpBlock(w) \/ TpDecide(w) \/ TpRun(w)

TpOwner ==
    \/ TpEnqueue
    \/ \E w \in TPWorkers : TpNotifyOne(w)
    \/ TpStop
    \/ TpNotifyAll
    \/ TpJoin

NextThreadPool ==
    /\ \/ TpOwner
       \/ \E w \in TPWorkers : TpWorker(w)
       \/ \E w \in TPWorkers : TpSpuriousWake(w)
    /\ UNCHANGED <<rh_vars, server_vars, rlimit_nofile, connection_pool_, buffer_gauge, locking>>

SpecThreadPool == Init /\ [][NextThreadPool]_vars

\* Every thread that can take a step takes one, a thread waiting for
\* queue_mutex_ gets it when it is released again and again; nothing obliges
\* a spurious wake-up to happen.
FairThreadPool ==
    /\ SpecThreadPool
    /\ WF_vars(TpOwner /\ UNCHANGED <<rh_vars, server_vars, rlimit_nofile, connection_pool_, buffer_gauge, locking>>)
    /\ \A w \in TPWorkers : SF_vars(TpWorker(w) /\ UNCHANGED <<rh_vars, server_vars, rlimit_nofile, connection_pool_, buffer_gauge, locking>>)

\* The request handler alone, called from RHThreads threads; the server is
\* left in its initial state.
SpecRH == Init /\ [][RHNext /\ UNCHANGED srv_vars]_vars

\* The request handler called from RHThreads worker threads, each serving
\* POST /process or GET /numbers/sum-all.
SpecSumAll == Init /\ [][(RHNext \/ RHSumAll) /\ UNCHANGED srv_vars]_vars

\* The request handler called from RHThreads worker threads, each serving
\* POST /process or GET /numbers/sum/<client id>.
SpecClientSum == Init /\ [][(RHNext \/ RHClientSum) /\ UNCHANGED srv_vars]_vars

(***************************************************************************)
(* Claims about RequestHandler (checked under SpecRH)                      *)
(***************************************************************************)

\* The call of caller t has run to its return statement.
RhAtReturn(t) == rh_pc[t] = "ret"

\* C3: for every valid body with number = k, processRequest returns the same
\* id, name and phone, number = k + 1 and success = true, adds exactly k to
\* total_sum and to per_client_sum["user_" + id], and changes no other
\* client's sum.
C3_ValidBodyProcessed ==
    \A t \in RHThreads :
        (RhAtReturn(t) /\ rh_input[t] \in ValidBodies) =>
            LET b == rh_input[t]
                r == rh_result[t]
                k == b.number.n
            IN /\ r.success = TRUE
               /\ r.id = b.id.n
               /\ r.name = b.name.s
               /\ r.phone = b.phone.s
               /\ r.number > k
               /\ r.number - k = 1
               /\ rh_eff[t].total = k
               /\ \A c \in DOMAIN rh_eff[t].client :
                      rh_eff[t].client[c] = IF c = ClientId(b.id.n) THEN k ELSE 0
               /\ ClientId(b.id.n) \in DOMAIN client_numbers_sum_

\* C4: for every invalid body, processRequest returns success = false,
\* leaves total_sum and every per-client sum unchanged, increases the failed
\* counter by exactly one and does not increase the successful counter.
C4_InvalidBodyRejected ==
    \A t \in RHThreads :
        (RhAtReturn(t) /\ rh_input[t] \in InvalidBodies) =>
            /\ rh_result[t].success = FALSE
            /\ rh_eff[t].total = 0
            /\ \A c \in DOMAIN rh_eff[t].client : rh_eff[t].client[c] = 0
            /\ rh_eff[t].failed = 1
            /\ rh_eff[t].succ = 0

\* An invalid body has been rejected while the tallies were already non-zero.
C4_Witness ==
    \E t \in RHThreads :
        /\ RhAtReturn(t)
        /\ rh_input[t] \in InvalidBodies
        /\ rh_input[t].kind = "object"
        /\ total_numbers_sum_ # 0
        /\ client_numbers_sum_ # EmptyMap

\* No call is in progress.
RhQuiescent == \A t \in RHThreads : rh_pc[t] = "idle"

\* C5: after any interleaving of concurrent processRequest calls, every call
\* with a valid body has returned success = true, total_sum has grown by the
\* sum of their numbers, each per-client sum by the numbers submitted for its
\* id, and the processed and successful counters by the number of calls (of
\* valid calls) made: no update is lost.
C5_NoLostUpdate ==
    RhQuiescent =>
        /\ rh_expect.ok_valid = rh_expect.valid
        /\ total_numbers_sum_ = rh_expect.total
        /\ DOMAIN client_numbers_sum_ = DOMAIN rh_expect.client
        /\ \A c \in DOMAIN client_numbers_sum_ :
               client_numbers_sum_[c] = rh_expect.client[c]
        /\ requests_processed_ = rh_expect.started
        /\ successful_requests_ = rh_expect.valid
        /\ successful_requests_ + failed_requests_ = requests_processed_

\* Two valid calls for the same client id ran concurrently and have returned.
C5_Witness ==
    /\ RhQuiescent
    /\ rh_overlap
    /\ rh_expect.valid >= 2
    /\ rh_expect.ok_valid = rh_expect.valid

(***************************************************************************)
(* Claims about MultiplexingServer (checked under Spec and SpecIdle)       *)
(***************************************************************************)

\* Worker w finishes its call of sendResponse in this step.
SendStep(w) == workers[w].pc = "send" /\ workers'[w].pc = "wait"

\* The tasks that have been enqueued and whose response has not been handed
\* to sendResponse yet, other than the one worker w holds.
PendingBeside(w) ==
    { tasks_[i] : i \in 1..Len(tasks_) }
    \cup { workers[v].task : v \in { u \in Workers \ {w} : workers[u].pc = "send" } }

\* The connection a task was cut for is still in clients_, on the object the
\* task captured.
InMap(task) ==
    LET o == task.this
    IN /\ conns[o].alive
       /\ conns[o].gen = task.g
       /\ conns[o].fd_ \in FDs
       /\ clients_[conns[o].fd_] = o
       /\ fd_table[conns[o].fd_] = task.g

\* C1: when requests R1 and then R2 arrive on one connection, R1's response
\* is appended to the write buffer before R2's: no response is appended
\* while the response of an earlier request of the same connection is still
\* to come.
C1_ResponsesInRequestOrder ==
    [][ \A w \in Workers :
          (SendStep(w) /\ InMap(workers[w].task)) =>
              ~ \E t \in PendingBeside(w) :
                    /\ t.g = workers[w].task.g
                    /\ t.r > 0
                    /\ t.r < workers[w].task.r ]_vars

\* The step of worker w appends exactly the one response of its task to the
\* connection's write_buffer_ (of which the kernel may take a prefix).
OneResponseAppended(w) ==
    LET task == workers[w].task
        o == task.this
        full == conns[o].write_buffer_ \o workers[w].response
        taken == tcp'[task.g].sent - tcp[task.g].sent
    IN /\ Len(workers[w].response) = RespLen
       /\ \A i \in 1..RespLen : /\ workers[w].response[i].g = task.g
                                /\ workers[w].response[i].r = task.r
                                /\ workers[w].response[i].i = i
       /\ taken \in 0..Len(full)
       /\ conns'[o].write_buffer_ = SubSeq(full, taken + 1, Len(full))

\* C2: every request framed on a connection that stays open is handed to
\* exactly one worker, and that worker appends exactly one response for it,
\* whether the handler succeeded, the HTTP parse failed or the handler threw;
\* so k framed requests cause exactly k responses.
C2_ExactlyOneResponsePerRequest ==
    [][ /\ \A w \in Workers :
              (SendStep(w) /\ InMap(workers[w].task)) => OneResponseAppended(w)
        /\ \A w \in Workers :
              (workers'[w] # workers[w]) =>
                  \/ SendStep(w)
                  \/ /\ workers[w].pc = "wait"
                     /\ workers'[w].pc = "send"
                     /\ tasks_ # <<>>
                     /\ workers'[w].task = Head(tasks_)
                     /\ tasks_' = Tail(tasks_)
                     /\ \A v \in Workers \ {w} : workers'[v] = workers[v]
        /\ (tasks_' # tasks_) =>
              \/ /\ tasks_ # <<>>
                 /\ tasks_' = Tail(tasks_)
                 /\ \E w \in Workers : workers'[w].task = Head(tasks_)
                                       /\ workers[w].pc = "wait"
              \/ /\ Len(tasks_') = Len(tasks_) + 1
                 /\ SubSeq(tasks_', 1, Len(tasks_)) = tasks_ ]_vars

\* Statuses of the responses waiting in a write buffer.
StatusesIn(write_buffer) == { write_buffer[i].status : i \in 1..Len(write_buffer) }

\* An open connection has been sent part of a response and holds the
\* responses of a failed parse (400) and of a throwing handler (500).
C2_Witness ==
    \E f \in FDs :
        /\ clients_[f] # 0
        /\ fd_table[f] # 0
        /\ tcp[fd_table[f]].sent > 0
        /\ {400, 500} \subseteq StatusesIn(conns[clients_[f]].write_buffer_)
        /\ \A i \in 1..Len(conns[clients_[f]].write_buffer_) :
               conns[clients_[f]].write_buffer_[i].g = fd_table[f]

\* C6: a worker's sendResponse on a connection that has already been closed
\* is a no-op: no write buffer changes and no socket is sent any byte.
C6_EnqueueOnClosedIsNoOp ==
    [][ \A w \in Workers :
          (SendStep(w) /\ tcp[workers[w].task.g].state = "closed") =>
              /\ \A o \in Objs : conns'[o].write_buffer_ = conns[o].write_buffer_
              /\ \A g \in Gens : tcp'[g].sent = tcp[g].sent ]_vars

\* C7: the write buffer of a connection never holds more than
\* max_write_buffer_bytes.
C7_WriteBufferBounded ==
    \A o \in Objs : conns[o].alive => Len(conns[o].write_buffer_) <= MaxWriteBuf

\* C8: for a request whose Content-Length exceeds max_read_buffer_bytes no
\* response is ever enqueued: sendResponse is not called for such a request.
C8_NoResponseForOversizedRequest ==
    [][ \A w \in Workers :
          (SendStep(w) /\ workers[w].task.cl > MaxReadBuf) =>
              \A o \in Objs : conns'[o].write_buffer_ = conns[o].write_buffer_ ]_vars

\* The connection on descriptor f has been idle for longer than
\* connection_timeout.
IdleTooLong(f) ==
    /\ clients_[f] # 0
    /\ now - conns[clients_[f]].last_activity_ > connection_timeout

\* Descriptor f is open on a connection that is no longer in clients_.
Orphaned(f) == fd_table[f] # 0 /\ clients_[f] = 0

\* C9: while the event loop keeps turning, a connection whose last activity
\* is older than the idle timeout is eventually out of the map (or active
\* again); and once the reaper has taken a connection out of the map, its
\* descriptor produces no event: it is not registered with epoll, no event of
\* the batch names it and no handler runs on it.
C9_IdleConnectionReaped ==
    /\ \A f \in FDs : IdleTooLong(f) ~> ~IdleTooLong(f)
    /\ [](\A f \in FDs :
            Orphaned(f) => /\ epoll_reg[f] = "none"
                           /\ \A e \in el_batch : e.fd # f
                           /\ el_fd # f)

\* The reaper has taken a connection out of the map, and data the client
\* sent on it afterwards waits unread.
C9_Witness ==
    \E f \in FDs : /\ Orphaned(f)
                   /\ tcp[fd_table[f]].inq # <<>>
                   /\ el_pc = "wait"

\* C10: the idle reaper closes the socket before it releases the object to
\* the pool: no descriptor stays open on a connection that is out of the
\* map, and no object in the pool holds a descriptor.
C10_ReapedDescriptorClosed ==
    /\ \A f \in FDs : ~Orphaned(f)
    /\ \A i \in 1..Len(pool_) : conns[pool_[i]].fd_ = NoFd

\* The peer of the accepted connection g has sent FIN and the server still
\* holds the descriptor: the socket is in CLOSE_WAIT.
HalfClosed(g) == tcp[g].state = "open" /\ tcp[g].fin

\* C11: while the event loop keeps turning, every accepted socket whose peer
\* has sent FIN is eventually closed by the server, also when the idle reaper
\* took the connection out of the map first.
C11_HalfClosedEventuallyClosed ==
    \A g \in Gens : HalfClosed(g) ~> (tcp[g].state = "closed")

\* C12: no connection whose peer is open and error-free is taken out of the
\* map for inactivity before it has been idle for longer than the configured
\* idle timeout.
C12_NoEarlyIdleClose ==
    [][ \A f \in FDs :
          ( /\ clients_[f] # 0
            /\ clients_'[f] = 0
            /\ fd_table[f] # 0
            /\ ~tcp[fd_table[f]].fin )
          => now - conns[clients_[f]].last_activity_ > connection_timeout ]_vars

\* C13: whenever the runServer thread is between two events, every
\* connection in the map has its active flag set.
C13_NoInactiveConnectionInMap ==
    el_pc \in {"wait", "events"} =>
        \A f \in FDs : clients_[f] # 0 => conns[clients_[f]].active_

\* The header block of a request holds a header line without ':'.
HasNoColonLine(request) == \E i \in 1..Len(request) : request[i].k = "HL"

\* The request line of a request has fewer than two spaces.
HasBadRequestLine(request) == request # <<>> /\ request[1].k \in {"RL0", "RL1"}

\* The framing loop of the runServer thread stops in this step at a header
\* block whose Content-Length value std::stoul rejects.
StopsAtBadContentLength ==
    /\ el_pc = "frame"
    /\ el_pc' = "events"
    /\ clients_[el_fd] # 0
    /\ FrameOne(conns[clients_[el_fd]].read_buffer_, el_pos).why = "content-length"

\* C14: each framing parse error is answered with a 400 response and the
\* connection stays open and usable: when the framing loop meets a malformed
\* Content-Length the connection stays in the map, the faulty header block is
\* consumed and a 400 response is queued or in the making; and a worker whose
\* request has a header line without ':' or a request line without two spaces
\* hands a 400 response to sendResponse.
C14_FramingErrorAnswered ==
    [][ /\ StopsAtBadContentLength =>
              /\ clients_'[el_fd] = clients_[el_fd]
              /\ FrameOne(conns'[clients_[el_fd]].read_buffer_, 0).why # "content-length"
              /\ \/ 400 \in { conns'[clients_[el_fd]].write_buffer_[i].status :
                                i \in 1..Len(conns'[clients_[el_fd]].write_buffer_) }
                 \/ Len(tasks_') > Len(tasks_)
        /\ \A w \in Workers :
              ( /\ SendStep(w)
                /\ \/ HasNoColonLine(workers[w].task.complete_request)
                   \/ HasBadRequestLine(workers[w].task.complete_request) )
              => \A i \in 1..Len(workers[w].response) :
                     workers[w].response[i].status \in {400, 500} ]_vars

\* The task the framing loop enqueues in this step, NoTask when it enqueues
\* none.
Enqueued == IF Len(tasks_') = Len(tasks_) + 1 THEN tasks_'[Len(tasks_')] ELSE NoTask

\* C15: the request handed to a handler is exactly the header block and the
\* content_length body bytes of one request: it is header_end + 4 +
\* content_length bytes long, the body the parser extracts from it has
\* content_length bytes, and none of its bytes belongs to another request.
C15_TaskHoldsExactlyOneRequest ==
    [][ Enqueued # NoTask =>
          LET request == Enqueued.complete_request
              header_end == Find(request, <<CR, LF, CR, LF>>, 0)
          IN /\ header_end # npos
             /\ Len(request) = header_end + 4 + Enqueued.cl
             /\ Len(parseHttpRequestOptimized(request).body) = Enqueued.cl
             /\ \A i \in 1..Len(request) :
                    request[i].k = "RL" => request[i].r = Enqueued.r ]_vars

\* The connections handleNewConnection has accepted so far.
Accepted == { g \in Gens : tcp[g].state \in {"open", "closed"} }

\* C16: connections_total counts the accepted connections, and
\* active_connections goes up by one with each accepted connection and down
\* by one with each removal (peer close, I/O error, health probe, idle reap,
\* shutdown cleanup), so that it is the number of connections in the map and
\* never negative.
C16_ConnectionCountersExact ==
    /\ metrics.connections_total_ = Cardinality(Accepted)
    /\ metrics.active_connections_ = Cardinality({ f \in FDs : clients_[f] # 0 })
    /\ metrics.active_connections_ >= 0

\* Worker w takes a task in this step and runs its handler to the end (no
\* exception escapes, the HTTP parse succeeds).
HandlerStep(w) ==
    /\ workers[w].pc = "wait"
    /\ workers'[w].pc = "send"
    /\ throws' = throws
    /\ parseHttpRequestOptimized(workers'[w].task.complete_request).ok

\* The parsed request of the task worker w has just taken.
Handled(w) == parseHttpRequestOptimized(workers'[w].task.complete_request)

\* The body of a request fails RequestHandler's JSON parsing or field
\* validation.
BodyRejected(body) ==
    LET parsed == ParseJson(BodyJson(body))
    IN parsed.err # "" \/ ~validateUserData(parsed.data)

\* C17: a POST /process whose body fails JSON parsing or field validation
\* adds one to the Metrics failed-requests counter and nothing to the Metrics
\* successful-requests counter.
C17_RejectedBodyCountedFailed ==
    [][ \A w \in Workers :
          ( /\ HandlerStep(w)
            /\ Handled(w).method = "POST"
            /\ Handled(w).path = "/process"
            /\ BodyRejected(Handled(w).body) )
          => /\ metrics'.requests_failed_ = metrics.requests_failed_ + 1
             /\ metrics'.requests_successful_ = metrics.requests_successful_ ]_vars

\* C18: every routed handler invocation (each GET route, POST /process and
\* the 404 fallback) adds one to the Metrics request count, records the bytes
\* received and the bytes sent, and records one duration observation.
C18_EveryHandlerRecordsMetrics ==
    [][ \A w \in Workers :
          HandlerStep(w) =>
              /\ metrics'.requests_total_ = metrics.requests_total_ + 1
              /\ metrics'.bytes_received_ = metrics.bytes_received_ + Len(Handled(w).body)
              /\ metrics'.bytes_sent_ > metrics.bytes_sent_
              /\ metrics'.request_duration_count_ = metrics.request_duration_count_ + 1 ]_vars

\* Worker w is about to send the response of a GET /metrics request.
SendsMetrics(w) ==
    /\ workers[w].pc = "send"
    /\ LET req == parseHttpRequestOptimized(workers[w].task.complete_request)
       IN req.ok /\ req.method = "GET" /\ req.path = "/metrics"
    /\ workers[w].content # <<>>

\* C19: serving GET /metrics changes no counter: the response reports the
\* counters as they are and the handler leaves every counter as it was, so
\* two successive GET /metrics with nothing else in between report the same
\* counter values.
C19_MetricsRenderIdempotent ==
    [][ \A w \in Workers :
          ( /\ HandlerStep(w)
            /\ Handled(w).method = "GET"
            /\ Handled(w).path = "/metrics" )
          => /\ workers'[w].content = <<Counters(metrics)>>
             /\ Counters(metrics') = Counters(metrics) ]_vars

\* Two successive GET /metrics requests of one connection have been served
\* and their responses, both about to be sent, report the same counters.
C19_Witness ==
    \E v, w \in Workers :
        /\ SendsMetrics(v)
        /\ SendsMetrics(w)
        /\ workers[v].task.g = workers[w].task.g
        /\ workers[v].task.r = 1
        /\ workers[w].task.r = 2
        /\ workers[v].content = workers[w].content
        /\ workers[w].content[1].connections_total_ = 1

\* The sum of the values of a map of client sums.
RECURSIVE SumOfClients(_)
SumOfClients(m) ==
    IF DOMAIN m = {} THEN 0
    ELSE LET k == CHOOSE key \in DOMAIN m : TRUE
         IN m[k] + SumOfClients([key \in DOMAIN m \ {k} |-> m[key]])

\* C20: every GET /numbers/sum-all response has total equal to the sum of
\* the values in its clients object, also while other workers are inside
\* POST /process.
C20_SumAllTotalMatchesClients ==
    \A t \in RHThreads :
        rh_pc[t] = "sum_all_ret" =>
            rh_result[t].total = SumOfClients(rh_result[t].clients)

\* Caller t performs the per-client lookup in this step.
ClientSumStep(t) == rh_pc[t] = "idle" /\ rh_pc'[t] = "client_sum_ret"

\* No call of processRequest is under way: every request started so far has
\* returned.
NoProcessInFlight ==
    \A u \in RHThreads : rh_pc[u] \in {"idle", "sum_all_total", "sum_all_ret", "client_sum_ret"}

ExactGetPaths == {"/health", "/metrics", "/numbers/sum", "/numbers/sum-all", "/"}

\* The path starts with "/numbers/sum/".
UnderSumPrefix(path) ==
    \E k \in 0..Len(path) : SubSeq(path, 1, k) = "/numbers/sum/"

C23_ConnectionsWithinConfiguredMaximum ==
    Cardinality({ f \in FDs : clients_[f] # 0 }) <= max_concurrent_connections

\* The runServer thread takes the connection on descriptor f out of the map
\* in this step, while handling an event.
ClosedByEvent(f) ==
    /\ el_pc \in {"events", "frame"}
    /\ clients_[f] # 0
    /\ clients_'[f] = 0

\* C24: a failure confined to one connection (recv or send error, buffer
\* cap exceeded, failure to register a newly accepted descriptor with epoll)
\* closes at most that connection: the event loop keeps running, and every
\* other connection stays in the map.
C24_FailureConfinedToOneConnection ==
    [][ /\ el_pc' # "failed"
        /\ \A f \in FDs :
              (ClosedByEvent(f) /\ ~MaintenanceDue) =>
                  \A h \in FDs \ {f} : clients_'[h] = clients_[h] ]_vars

\* C25: once stop() has set the shutdown flag the runServer thread leaves
\* its loop at the next test of the flag, and after cleanup the map is
\* empty, every client socket is closed and nothing is registered with the
\* (closed) epoll instance.
C25_ShutdownClosesEverything ==
    el_pc = "stopped" =>
        /\ \A f \in FDs : clients_[f] = 0
        /\ \A f \in FDs : fd_table[f] = 0
        /\ \A g \in Gens : tcp[g].state # "open"
        /\ \A f \in FDs : epoll_reg[f] = "none"

\* C26: the response a worker produced for a request read from connection A
\* is appended only to the write buffer of A's connection object and sent
\* only on A's socket, also when A has been closed and its object or its
\* descriptor number serves another connection B by the time the worker
\* calls sendResponse.
C26_ResponseStaysOnItsConnection ==
    [][ \A w \in Workers :
          SendStep(w) =>
              /\ \A g \in Gens \ {workers[w].task.g} : tcp'[g].sent = tcp[g].sent
              /\ \A o \in Objs :
                    conns'[o].write_buffer_ # conns[o].write_buffer_ =>
                        conns[o].gen = workers[w].task.g ]_vars

\* C27: no worker task touches a connection object that has been destroyed:
\* the object a task captured is alive when the task starts to run on it and
\* still alive when the task calls sendResponse on it, whether connections
\* were dropped by the full pool or by cleanup.
C27_NoTaskOnDestroyedObject ==
    /\ \A w \in Workers : workers[w].pc = "send" => conns[workers[w].task.this].alive
    /\ \A w \in Workers :
          (workers[w].pc = "wait" /\ tasks_ # <<>>) => conns[Head(tasks_).this].alive

\* Sequence p is a prefix of sequence q.
IsPrefix(p, q) == Len(p) <= Len(q) /\ SubSeq(q, 1, Len(p)) = p

\* C28: the bytes sent on a connection's socket are a prefix of the
\* concatenation, in append order, of the complete responses appended to its
\* write buffer: no byte is sent twice, skipped or reordered, and the bytes
\* of two responses do not interleave.
C28_SentIsPrefixOfAppended ==
    \A g \in Gens : tcp[g].state = "open" => IsPrefix(tcp[g].out, tcp[g].app)

\* A connection that holds bytes appended to its write buffer and not yet
\* handed to the kernel.
Undrained(g) == tcp[g].state = "open" /\ tcp[g].out # tcp[g].app

OpenConnections ==
    { f \in FDs : clients_[f] # 0 /\ fd_table[f] # 0 /\ conns[clients_[f]].fd_ = f }

\* C30: with enable_epollout_optimization set, whenever write_mutex_ of an
\* open connection is free (writeAvailable and sendResponse hold it for their
\* whole body, so between any two steps), its descriptor is registered for
\* EPOLLOUT if and only if its write_buffer_ is not empty, for every
\* interleaving of the workers' sendResponse with the event loop's
\* writeAvailable.
C30_WriteReadinessIffBufferNonEmpty ==
    config_.enable_epollout_optimization =>
        \A f \in OpenConnections :
            (epoll_reg[f] = "inout") <=> (conns[clients_[f]].write_buffer_ # <<>>)

\* The event e of the batch is handled by a step whose recv returns bytes
\* that do not fit into the connection's read_buffer_.
OverflowingRecv(e) ==
    /\ el_pc = "events"
    /\ e \in el_batch
    /\ el_batch' = el_batch \ {e}
    /\ e.fd # ListenFd
    /\ clients_[e.fd] # 0
    /\ "HUP" \notin e.ev
    /\ "IN" \in e.ev
    /\ Peek(Cur, conns[clients_[e.fd]].fd_) = "data"
    /\ Overflows(conns[clients_[e.fd]].read_buffer_,
                 Substr(tcp[fd_table[conns[clients_[e.fd]].fd_]].inq, 0, RecvBuf))

\* C31: no read_buffer_ ever holds more than max_read_buffer_size bytes, and
\* a recv whose bytes would exceed it appends nothing, hands no request to
\* the thread pool and closes the connection.
C31_ReadBufferBounded ==
    /\ \A o \in Objs : Len(conns[o].read_buffer_) <= MaxReadBuf
    /\ [][/\ \A o \in Objs : Len(conns'[o].read_buffer_) <= MaxReadBuf
          /\ \A e \in el_batch :
                OverflowingRecv(e) =>
                    /\ conns'[clients_[e.fd]].read_buffer_
                          \in {conns[clients_[e.fd]].read_buffer_, <<>>}
                    /\ tasks_' = tasks_
                    /\ enqueued' = enqueued
                    /\ clients_'[e.fd] = 0
                    /\ fd_table'[e.fd] = 0]_vars

\* The event loop is about to handle a readable connection whose read_buffer_
\* holds part of a request and cannot take the bytes that recv will return.
C31_Witness ==
    /\ el_pc = "events"
    /\ \E e \in el_batch :
          /\ e.fd # ListenFd
          /\ clients_[e.fd] # 0
          /\ "HUP" \notin e.ev
          /\ "IN" \in e.ev
          /\ Peek(Cur, conns[clients_[e.fd]].fd_) = "data"
          /\ conns[clients_[e.fd]].read_buffer_ # <<>>
          /\ Overflows(conns[clients_[e.fd]].read_buffer_,
                       Substr(tcp[fd_table[conns[clients_[e.fd]].fd_]].inq, 0, RecvBuf))

\* C32: after ~ThreadPool has set stop_ and called notify_all, every worker
\* thread eventually returns from its loop, so the joins (and stop()) end, for
\* every interleaving of the store and the notification with a worker's
\* predicate check and wait.
C32_WorkersExitAfterStop ==
    (thread_pool_.owner = "join") ~> (thread_pool_.owner = "done")

\* How often task t has been executed.
TimesRan(t) == Cardinality({ i \in 1..Len(thread_pool_.ran) : thread_pool_.ran[i] = t })

\* C33: every task enqueued (enqueue is called before ~ThreadPool sets stop_)
\* is executed, and never more than once; tasks leave the queue in the order
\* they were enqueued; a worker returns from its loop only when stop_ is set
\* and the queue is empty.
C33_TasksRunOnceInOrder ==
    /\ [](\A t \in 1..TPTasks : TimesRan(t) <= 1)
    /\ [](thread_pool_.popped = [i \in 1..Len(thread_pool_.popped) |-> i])
    /\ [][\A w \in TPWorkers :
            (thread_pool_.pc[w] # "exited" /\ thread_pool_'.pc[w] = "exited") =>
                (thread_pool_.stop_ /\ thread_pool_.tasks_ = <<>>)]_vars
    /\ \A t \in 1..TPTasks : (t < thread_pool_.next) ~> (TimesRan(t) = 1)

\* All tasks were enqueued and executed, more than one of them by the same
\* pool, and the pool has been destroyed.
C33_Witness ==
    /\ thread_pool_.owner = "done"
    /\ thread_pool_.next = TPTasks + 1
    /\ \A t \in 1..TPTasks : TimesRan(t) = 1

\* C34: each handling of an event of the listening socket ends: the accept
\* loop of handleNewConnection is left once accept4 reports EAGAIN, and an
\* accept4 error other than EAGAIN, even one that persists, does not keep the
\* runServer thread inside the loop for ever.
C34_AcceptLoopTerminates ==
    (el_pc = "accept") ~> (el_pc \notin {"accept", "accept_error"})

\* C35: while the server runs, the periodic maintenance of runServer
\* (checkConnectionHealth and cleanupInactiveClients, then the new
\* last_health_check) is carried out once it is due, whether or not epoll_wait
\* reports any event.
C35_MaintenanceEveryPeriod ==
    MaintenanceDue ~> ~MaintenanceDue

\* C36: the connection pool never holds more than its cap; release pushes
\* the object while the pool is below the cap and drops it otherwise;
\* acquire pops the most recently released object when the pool is not empty
\* and makes a new object only when it is empty.
C36_PoolBoundedLifo ==
    /\ [](Len(connection_pool_.pool_) <= PoolAloneCap)
    /\ [][\A c \in 1..PoolObjects :
            LET pool == connection_pool_.pool_
                after == connection_pool_'.pool_
            IN /\ (c \in connection_pool_.held /\ c \notin connection_pool_'.held) =>
                      after = IF Len(pool) < PoolAloneCap THEN pool \o <<c>> ELSE pool
               /\ (c \notin connection_pool_.held /\ c \in connection_pool_'.held) =>
                      IF pool # <<>>
                        THEN c = pool[Len(pool)] /\ after = SubSeq(pool, 1, Len(pool) - 1)
                        ELSE c \notin PoolMade /\ after = pool]_vars

\* The pool is full, with two objects released one after the other, and a
\* further object is still held: the next release is dropped, the next
\* acquire has to choose between two pooled objects.
C36_Witness ==
    /\ Len(connection_pool_.pool_) = PoolAloneCap
    /\ PoolAloneCap >= 2
    /\ connection_pool_.held # {}

\* The largest size whose observer has returned, 0 if there is none.
MaxObservedSoFar ==
    IF buffer_gauge.observed = {} THEN 0
    ELSE CHOOSE m \in buffer_gauge.observed : \A n \in buffer_gauge.observed : n <= m

\* C37: the max-observed write-buffer gauge never decreases and, once every
\* observer has returned, equals the largest size observed, for every
\* interleaving of observers running on different threads.
C37_GaugeIsRunningMaximum ==
    /\ []((\A t \in Observers : buffer_gauge.pc[t] = "idle") =>
            buffer_gauge.max_write_buffer_size_ = MaxObservedSoFar)
    /\ [][buffer_gauge'.max_write_buffer_size_ >= buffer_gauge.max_write_buffer_size_]_vars

\* The step handles event e of a connection in clients_ without a hang-up,
\* and its recv, if it makes one, reports EAGAIN.
HandledWithoutRead(e) ==
    /\ el_pc = "events"
    /\ e \in el_batch
    /\ el_batch' = el_batch \ {e}
    /\ e.fd # ListenFd
    /\ clients_[e.fd] # 0
    /\ "HUP" \notin e.ev
    /\ "IN" \in e.ev => Peek(Cur, conns[clients_[e.fd]].fd_) = "again"
    /\ ~MaintenanceDue

\* The peer of descriptor f is there and the step hands none of the bytes
\* queued for it to the kernel: a send on f in this step reported EAGAIN.
NothingTaken(f) ==
    /\ f \in FDs
    /\ fd_table[f] # 0
    /\ ~tcp[fd_table[f]].fin
    /\ tcp'[fd_table[f]].out = tcp[fd_table[f]].out

\* Connection object o and descriptor f are as they were: read_buffer_,
\* write_buffer_, active_, last_activity_, the entry of clients_ and the
\* registration with epoll.
ConnectionUntouched(o, f) ==
    /\ conns'[o] = conns[o]
    /\ clients_'[f] = clients_[f]
    /\ epoll_reg'[f] = epoll_reg[f]
    /\ fd_table'[f] = fd_table[f]

\* C38: a recv or send that reports EAGAIN changes nothing for its
\* connection. In handleClientEvent (readAvailable, writeAvailable) the
\* connection is left as it was; in sendResponse the connection is left as
\* the append and enableWriteNotifications before the send made it.
C38_WouldBlockChangesNothing ==
    [][/\ \A e \in el_batch :
            (/\ HandledWithoutRead(e)
             /\ "OUT" \in e.ev /\ conns[clients_[e.fd]].write_buffer_ # <<>>
                   => NothingTaken(conns[clients_[e.fd]].fd_))
                => ConnectionUntouched(clients_[e.fd], e.fd)
       /\ \A w \in Workers :
            LET o == workers[w].task.this
                f == conns[o].fd_
            IN (/\ workers[w].pc = "send"
                /\ workers'[w].pc = "wait"
                /\ conns[o].alive
                /\ NothingTaken(f))
                 => /\ conns'[o] = [conns[o] EXCEPT
                                      !.write_buffer_ = @ \o workers[w].response]
                    /\ clients_' = clients_
                    /\ fd_table' = fd_table
                    /\ epoll_reg' =
                         IF conns[o].write_buffer_ = <<>>
                              /\ config_.enable_epollout_optimization
                              /\ epoll_reg[f] # "none"
                           THEN [epoll_reg EXCEPT ![f] = "inout"]
                           ELSE epoll_reg]_vars

\* The inline send of sendResponse has reported EAGAIN: the connection is
\* open and active, the whole response is in write_buffer_, nothing has been
\* sent and EPOLLOUT is registered.
C38_Witness ==
    \E f \in FDs :
        /\ clients_[f] # 0
        /\ fd_table[f] # 0
        /\ conns[clients_[f]].fd_ = f
        /\ conns[clients_[f]].active_
        /\ conns[clients_[f]].write_buffer_ # <<>>
        /\ tcp[fd_table[f]].app = conns[clients_[f]].write_buffer_
        /\ tcp[fd_table[f]].out = <<>>
        /\ epoll_reg[f] = "inout"

\* Thread t waits for a mutex that another thread owns.
Blocked(t) ==
    /\ locking.script[t] # <<>>
    /\ Head(locking.script[t]).op = "lock"
    /\ locking.owner[Head(locking.script[t]).m] # 0

\* The mutexes thread t owns.
Held(t) == { m \in Mutexes : locking.owner[m] = t }

\* The order in which the code nests its mutexes: a thread that owns a mutex
\* only locks mutexes of a higher rank.
Rank(m) ==
    CASE m = "clients_mutex_" -> 1
      [] m = "pool_mutex_" -> 2
      [] m = "duration_mutex_" -> 2
      [] m = "histogram_mutex_" -> 3
      [] m = "rps_mutex_" -> 4
      [] m = "connection_mutex_" -> 5
      [] m = "queue_mutex_" -> 1
      [] m = "client_mutex_" -> 1
      [] OTHER -> 3

C40_LargestNumberIncreased ==
    \A t \in RHThreads :
        (RhAtReturn(t) /\ rh_input[t] \in ValidBodies /\ rh_input[t].number.n = IntMax) =>
            /\ rh_result[t].success = TRUE
            /\ rh_eff[t].total = IntMax
            /\ rh_result[t].number >= 0
            /\ rh_result[t].number - IntMax = 1

====
